---- MODULE Spec2Model ----
(***************************************************************************)
(* FlagHub signed-URL gateway.                                             *)
(*                                                                         *)
(* The repository holds several revisions of the gateway.  Each revision   *)
(* is modelled by its own group of variables and actions and has its own   *)
(* specification:                                                          *)
(*   Spec        the Cloudflare Worker of src/unnamed/part_004             *)
(*   SpecRate    the same Worker, one client asking without a country in   *)
(*               one rate-limit window (the clock does not advance)        *)
(*   SpecRefresh the Worker revision of backend/serverCloudwareWorker.ts   *)
(*               lines 1-176 (background refresh on a cache hit)           *)
(*   SpecExpress the Express server of backend/serverCloudwareWorker.ts    *)
(*               lines 346-575 (LRU cache and ongoingFetches)              *)
(*   SpecFaults  the Worker of part_004 with KV calls that throw and every *)
(*               method and path                                           *)
(*   SpecNoCredentials  the Worker of part_004 without a credential        *)
(*   SpecExpressV1      the Express server of lines 178-344                *)
(*   SpecSignature      generateCloudinarySignature on parameter maps      *)
(*   SpecHtml    the client getFlagHtml of src/unnamed/part_006            *)
(*   SpecCdn, SpecCdnInTurn  the client flag-cdn.js, its calls concurrent  *)
(*               or one after the other                                    *)
(*                                                                         *)
(* An action is one uninterrupted stretch of a handler: the code between   *)
(* two awaits that touch shared state (KV, the network).  Strings that the *)
(* code inspects are sequences of one-character strings.  The KV namespace *)
(* FLAG_CACHE is modelled as an atomic store; its keys are split by their  *)
(* prefix into kvRate ("rl_...") and kvFlag ("flag_...").                  *)
(***************************************************************************)
EXTENDS Integers, Sequences, FiniteSets, TLC

(***************************************************************************)
(* Program constants (src/unnamed/part_004 lines 8-11).                    *)
(***************************************************************************)
TTL_SECONDS == 12 * 60 * 60
RATE_LIMIT_KEY_PREFIX == "rl_"
RATE_LIMIT_MAX == 100
RATE_LIMIT_WINDOW_SEC == 900

(***************************************************************************)
(* Bounds of the model.                                                    *)
(***************************************************************************)
NumHandlers == 2
MaxRefreshes == 2
MaxRequests == 2
MaxRefreshRequests == 3
MaxExpressRequests == 3
MaxExpressTicks == 3
MaxRateRequests == 102
MaxTime == 900
TickSec == 450

\* slots for the requests in flight, and for the background refreshes that
\* the revision with a refresh on a cache hit leaves running
Handlers == 1..NumHandlers
Refreshers == (NumHandlers + 1)..(NumHandlers + MaxRefreshes)
Slots == Handlers \cup Refreshers

(***************************************************************************)
(* Text.                                                                   *)
(***************************************************************************)
LowerLetters ==
  <<"a","b","c","d","e","f","g","h","i","j","k","l","m",
    "n","o","p","q","r","s","t","u","v","w","x","y","z">>
UpperLetters ==
  <<"A","B","C","D","E","F","G","H","I","J","K","L","M",
    "N","O","P","Q","R","S","T","U","V","W","X","Y","Z">>
Digits == <<"0","1","2","3","4","5","6","7","8","9">>
Whitespace == {" "}

UpperChar(c) ==
  IF \E i \in 1..Len(LowerLetters) : LowerLetters[i] = c
  THEN UpperLetters[CHOOSE i \in 1..Len(LowerLetters) : LowerLetters[i] = c]
  ELSE c

toUpperCase(s) == [i \in 1..Len(s) |-> UpperChar(s[i])]

RECURSIVE trimStart(_)
trimStart(s) ==
  IF s # <<>> /\ Head(s) \in Whitespace THEN trimStart(Tail(s)) ELSE s

RECURSIVE trimEnd(_)
trimEnd(s) ==
  IF s # <<>> /\ s[Len(s)] \in Whitespace
  THEN trimEnd(SubSeq(s, 1, Len(s) - 1))
  ELSE s

trim(s) == trimEnd(trimStart(s))

\* /^[A-Z]{2}$/.test(s)
IsCountryCode(s) ==
  /\ Len(s) = 2
  /\ \A i \in 1..2 : \E j \in 1..Len(UpperLetters) : UpperLetters[j] = s[i]

\* Number.prototype.toString, for a count >= 0
RECURSIVE toString(_)
toString(n) ==
  IF n < 10
  THEN <<Digits[n + 1]>>
  ELSE toString(n \div 10) \o <<Digits[(n % 10) + 1]>>

DigitValue(c) == (CHOOSE i \in 1..Len(Digits) : Digits[i] = c) - 1

\* parseInt, for a string of decimal digits
RECURSIVE parseInt(_)
parseInt(s) ==
  IF Len(s) = 1
  THEN DigitValue(s[1])
  ELSE 10 * parseInt(SubSeq(s, 1, Len(s) - 1)) + DigitValue(s[Len(s)])

(***************************************************************************)
(* State of the Worker of src/unnamed/part_004.                            *)
(*   now       Date.now() / 1000                                           *)
(*   kvRate    FLAG_CACHE, the keys rl_<ip>                                *)
(*   kvFlag    FLAG_CACHE, the keys flag_<country>                         *)
(*   wk        per handler slot: where the invocation of handleRequest is  *)
(*             and its local variables                                     *)
(*   wkResp    per handler slot: the Response of its last invocation       *)
(*   wkHist    per handler slot: what its last invocation did (history)    *)
(*   wkLog     history of the run: arrivals, rate-limit window, origin     *)
(***************************************************************************)
VARIABLES now, kvRate, kvFlag, wk, wkResp, wkHist, wkLog

wkVars == <<now, kvRate, kvFlag, wk, wkResp, wkHist, wkLog>>

(***************************************************************************)
(* State of the Express server of backend/serverCloudwareWorker.ts, lines  *)
(* 346-575.                                                                *)
(*   nowMs           Date.now()                                            *)
(*   cache           the LRUCache: key -> [url, expiresAt, start]          *)
(*   ongoingFetches  the Map of that name: key -> promise                  *)
(*   ex              the request being handled: where getFlagHandler and   *)
(*                   its fetchAndCacheFlag are, and their local variables  *)
(*   exResp          what was sent on res for the latest request           *)
(*   exLog           history of the run                                    *)
(* Node runs one callback at a time.  The promises this code awaits are    *)
(* all settled when they are awaited, so each continuation is a microtask  *)
(* and runs before the next request's callback: a request is handled from  *)
(* its arrival to its answer before the next one starts.                   *)
(***************************************************************************)
VARIABLES nowMs, cache, ongoingFetches, ex, exResp, exLog

exVars == <<nowMs, cache, ongoingFetches, ex, exResp, exLog>>

(***************************************************************************)
(* State of the clients and of the signature check.                        *)
(*   sg               the parameter maps handed to the Worker's            *)
(*                    generateCloudinarySignature and what it returned     *)
(*   gfNow, htmlCache, gf                                                  *)
(*                    getFlagHtml of src/unnamed/part_006: Date.now(), its *)
(*                    cache Map and the call being made                    *)
(*   cdnNow, cdnCache, pendingRequests, chain, caller                      *)
(*                    flag-cdn.js: Date.now(), its cache Map, the Map      *)
(*                    pendingRequests, the fetch chains (one per           *)
(*                    fetchPromise) and the calls of fetchFlag             *)
(***************************************************************************)
VARIABLES sg, gfNow, htmlCache, gf, cdnNow, cdnCache, pendingRequests, chain, caller

sgVars == <<sg>>
gfVars == <<gfNow, htmlCache, gf>>
cdnVars == <<cdnNow, cdnCache, pendingRequests, chain, caller>>
clVars == <<sgVars, gfVars, cdnVars>>

vars == <<wkVars, exVars, clVars>>

NoPromise == [state |-> "none", url |-> [public_id |-> <<>>, timestamp |-> 0, signature |-> <<>>],
              message |-> ""]
ExIdle ==
  [pc |-> "idle", country |-> <<>>, cacheKey |-> <<>>, res |-> FALSE,
   promise |-> NoPromise]
ExNoHist == [cacheKey |-> <<>>, missed |-> FALSE, afterCompleted |-> FALSE,
             generated |-> FALSE, at |-> 0, valid |-> FALSE, sent |-> 0]

\* the clients at rest, as they are in the runs of the gateways
SgIdle == [a |-> <<>>, b |-> <<>>, signedA |-> <<>>, signedB |-> <<>>]
GfIdle == [pc |-> "idle", country |-> <<>>, attempt |-> 0, requests |-> 0,
           statuses |-> <<>>, result |-> "none", calls |-> 0]
CdnNull == "null"
NoChain == [state |-> "none", country |-> "", attempt |-> 0, fetches |-> 0,
            waits |-> <<>>, retry |-> "none", value |-> CdnNull]
NoCall == [state |-> "idle", country |-> "", chain |-> 0, value |-> CdnNull]
MaxChains == 2
MaxCalls == 2
Chains == 1..MaxChains
Calls == 1..MaxCalls

SgInit == sg = SgIdle
GfInit ==
  /\ gfNow = 0
  /\ htmlCache = [k \in {} |-> [html |-> <<>>, timestamp |-> 0]]
  /\ gf = GfIdle
CdnInit ==
  /\ cdnNow = 0
  /\ cdnCache = [k \in {} |-> [url |-> CdnNull, expiry |-> 0]]
  /\ pendingRequests = [k \in {} |-> 0]
  /\ chain = [c \in Chains |-> NoChain]
  /\ caller = [k \in Calls |-> NoCall]
ClInit == SgInit /\ GfInit /\ CdnInit

(***************************************************************************)
(* KV store: key -> [value, expiresAt].  A key put with expirationTtl is   *)
(* gone ttl seconds after the put; get answers null for a missing key.     *)
(***************************************************************************)
KVLive(store, key) == key \in DOMAIN store /\ now < store[key].expiresAt

KVGet(store, key, null) == IF KVLive(store, key) THEN store[key].value ELSE null

KVPut(store, key, value, expirationTtl) ==
  [k \in DOMAIN store \cup {key} |->
     IF k = key
     THEN [value |-> value, expiresAt |-> now + expirationTtl]
     ELSE store[k]]

KVExpire(store, t) == [k \in {x \in DOMAIN store : t < store[x].expiresAt} |-> store[k]]

EmptyKV == [k \in {} |-> [value |-> <<>>, expiresAt |-> 0]]

(***************************************************************************)
(* Requests, URLs and responses.                                           *)
(***************************************************************************)
\* url.searchParams.get("country"): null when the parameter is missing
NoParam == [given |-> FALSE, text |-> <<>>]
Param(s) == [given |-> TRUE, text |-> s]
Truthy(param) == param.given /\ param.text # <<>>

\* "" / null where the code holds a URL
NoUrl == [public_id |-> <<>>, timestamp |-> 0, signature |-> <<>>]

\* the request of handleRequest's OPTIONS and 404 branches and of /api/getFlag
GetFlagPath == "/api/getFlag"

\* a response: its status, the fields of its JSON body and its headers, a set
\* of <<name, value>> pairs
NoResp == [status |-> 0, success |-> FALSE, message |-> "", secureUrl |-> NoUrl,
           headers |-> {}]

\* corsHeaders, lines 38-44
corsHeaders ==
  { <<"Access-Control-Allow-Origin", "*">>,
    <<"Access-Control-Allow-Methods", "GET, OPTIONS">>,
    <<"Access-Control-Allow-Headers", "Content-Type">> }

\* the mutation: a JSON response that says its content type only
JsonResponse_ContentTypeOnly(success, statusCode, message, secureUrl) ==
  [status |-> statusCode, success |-> success, message |-> message,
   secureUrl |-> secureUrl,
   headers |-> {<<"Content-Type", "application/json">>}]

\* createJsonResponse({success, message, secureUrl}, statusCode), lines 46-54
JsonResponse(success, statusCode, message, secureUrl) ==
  [status |-> statusCode, success |-> success, message |-> message,
   secureUrl |-> secureUrl,
   headers |-> {<<"Content-Type", "application/json">>} \cup corsHeaders]

\* createJsonResponse of backend/serverCloudwareWorker.ts, lines 26-31
RfJsonResponse(success, statusCode, message, secureUrl) ==
  [status |-> statusCode, success |-> success, message |-> message,
   secureUrl |-> secureUrl,
   headers |-> {<<"Content-Type", "application/json">>}]

\* generateCloudinarySignature: HMAC-SHA1 under the API secret of the
\* parameters sorted by key and joined as key=value with &
generateCloudinarySignature(public_id, timestamp) ==
  <<"HMAC-SHA1", "CLOUDINARY_API_SECRET",
    "public_id=", public_id, "&", "timestamp=", toString(timestamp)>>

\* the URL fetchSignedCloudinaryUrl assembles before it asks the origin
SignedUrl(country) ==
  LET filePath == <<"flags/">> \o country \o <<".svg">>
      expiresAt == now + TTL_SECONDS
  IN  [public_id |-> filePath,
       timestamp |-> expiresAt,
       signature |-> generateCloudinarySignature(filePath, expiresAt)]

\* the mutation: one counter for all clients
getRateLimitKey_Shared(ip) == <<RATE_LIMIT_KEY_PREFIX, "all">>

getRateLimitKey(ip) == <<RATE_LIMIT_KEY_PREFIX, IF ip = "" THEN "unknown_ip" ELSE ip>>

\* the cache key, `flag_${country}` (lines 143 and 188)
FlagKey_Shared(country) == <<"flag_">>
FlagKey(country) == <<"flag_">> \o country

\* isRateLimited's test of the count it read (line 66)
OverLimit_Strict(count) == count > RATE_LIMIT_MAX
OverLimit(count) == count >= RATE_LIMIT_MAX

\* fetchSignedCloudinaryUrl's answer is a URL when the verification request
\* returned and was ok (line 218); fetchAndCacheFlag turns null and a thrown
\* error into "" (lines 187, 192-195)
OriginSucceeded_Unverified(outcome) == outcome # "throw"
OriginSucceeded(outcome) == outcome = "ok"

\* handleGetFlag's first step is the rate limiter (line 108)
FirstStage_Validate == "validate"
FirstStage == "rateGet"

(***************************************************************************)
(* Inputs.                                                                 *)
(***************************************************************************)
ClientIps == {"203.0.113.7"}
CountryParams ==
  { NoParam,
    Param(<<" ", "d", "e">>),
    Param(<<"D", "E">>),
    Param(<<"z", "z", "9">>) }
\* what restcountries.com answers to atomMiddleware
\* the request or response.json() throws, or data is the object of a 404
\* body, an empty array, an array whose first entry has no cca2, or a match
LookupOutcomes ==
  { [kind |-> "throw", isArray |-> FALSE, entries |-> <<>>],
    [kind |-> "json", isArray |-> FALSE, entries |-> <<>>],
    [kind |-> "json", isArray |-> TRUE, entries |-> <<>>],
    [kind |-> "json", isArray |-> TRUE, entries |-> <<[cca2 |-> <<>>]>>],
    [kind |-> "json", isArray |-> TRUE, entries |-> <<[cca2 |-> <<"f", "r">>]>>] }
\* the lookup gave no country code
LookupFailed(outcome) ==
  \/ outcome.kind = "throw"
  \/ ~outcome.isArray
  \/ outcome.entries = <<>>
  \/ outcome.entries[1].cca2 = <<>>
\* what the origin answers to fetchSignedCloudinaryUrl's verification request
OriginOutcomes == {"ok", "notOk", "throw"}
\* how a put to FLAG_CACHE ends
PutOutcomes == {"ok", "throw"}

WkIdle ==
  [pc |-> "idle", ip |-> "", ua |-> "", param |-> NoParam, count |-> 0,
   country |-> <<>>, secureUrl |-> NoUrl]

WkNoHist ==
  [rlReads |-> 0, rlWrites |-> 0, validated |-> FALSE, hit |-> FALSE,
   raced |-> FALSE, fetched |-> FALSE, flagWrites |-> 0, refreshes |-> 0,
   bad |-> FALSE, origin |-> "", originCalls |-> 0, country |-> <<>>,
   lookup |-> "none", ip |-> ""]

InFlight(p) == wk[p].pc # "idle"

Respond(p, r) ==
  /\ wk' = [wk EXCEPT ![p] = WkIdle]
  /\ wkResp' = [wkResp EXCEPT ![p] = r]

(***************************************************************************)
(* handleRequest, lines 19-36: a request arrives in the lowest free slot.  *)
(***************************************************************************)
WkArrive(p, method, path, ip, param) ==
  /\ ~InFlight(p)
  /\ \A q \in Handlers : q < p => InFlight(q)
  /\ wkLog' = [wkLog EXCEPT !.arrivals = @ + 1]
  /\ wkHist' = [wkHist EXCEPT ![p] = [WkNoHist EXCEPT !.ip = ip]]
  /\ IF method = "OPTIONS"
     THEN Respond(p, [NoResp EXCEPT !.status = 204, !.headers = corsHeaders])
     ELSE IF path # GetFlagPath
     THEN Respond(p, JsonResponse(FALSE, 404, "Not Found", NoUrl))
     ELSE /\ wk' = [wk EXCEPT ![p] =
                      [WkIdle EXCEPT !.pc = FirstStage, !.ip = ip, !.param = param]]
          /\ wkResp' = [wkResp EXCEPT ![p] = NoResp]
  /\ UNCHANGED <<now, kvRate, kvFlag, exVars, clVars>>

\* a limiter that counts the refused request too
WkRateGet_PutOnRefusal(p) ==
  /\ wk[p].pc = "rateGet"
  /\ LET key == getRateLimitKey(wk[p].ip)
         requestCount == KVGet(kvRate, key, <<>>)
         count == IF requestCount # <<>> THEN parseInt(requestCount) ELSE 0
     IN  /\ wkHist' = [wkHist EXCEPT ![p].rlReads = @ + 1]
         /\ IF OverLimit(count)
            THEN /\ Respond(p, JsonResponse(FALSE, 429, "Rate limit exceeded.", NoUrl))
                 /\ kvRate' = KVPut(kvRate, key, toString(count), RATE_LIMIT_WINDOW_SEC)
            ELSE /\ wk' = [wk EXCEPT ![p].pc = "ratePut", ![p].count = count]
                 /\ UNCHANGED <<wkResp, kvRate>>
  /\ UNCHANGED <<now, kvFlag, wkLog, exVars, clVars>>

(***************************************************************************)
(* isRateLimited, lines 62-68, and handleGetFlag, lines 108-117: the       *)
(* counter is read; at the limit the request ends with 429.                *)
(***************************************************************************)
WkRateGet(p) ==
  /\ wk[p].pc = "rateGet"
  /\ LET key == getRateLimitKey(wk[p].ip)
         requestCount == KVGet(kvRate, key, <<>>)
         count == IF requestCount # <<>> THEN parseInt(requestCount) ELSE 0
     IN  /\ wkHist' = [wkHist EXCEPT ![p].rlReads = @ + 1]
         /\ IF OverLimit(count)
            THEN Respond(p, JsonResponse(FALSE, 429, "Rate limit exceeded.", NoUrl))
            ELSE /\ wk' = [wk EXCEPT ![p].pc = "ratePut", ![p].count = count]
                 /\ UNCHANGED wkResp
  /\ UNCHANGED <<now, kvRate, kvFlag, wkLog, exVars, clVars>>

(***************************************************************************)
(* isRateLimited, lines 70-74: count + 1 is written with a fresh TTL.      *)
(***************************************************************************)
WkRatePut(p) ==
  /\ wk[p].pc = "ratePut"
  /\ LET key == getRateLimitKey(wk[p].ip)
         live == KVLive(kvRate, key)
     IN  /\ kvRate' = KVPut(kvRate, key, toString(wk[p].count + 1), RATE_LIMIT_WINDOW_SEC)
         /\ wkLog' = [wkLog EXCEPT
                        !.windowStart = IF live THEN @ ELSE now,
                        !.admitted = IF live THEN @ + 1 ELSE 1]
  /\ wk' = [wk EXCEPT ![p].pc = "validate", ![p].count = 0, ![p].ip = ""]
  /\ wkHist' = [wkHist EXCEPT ![p].rlWrites = @ + 1]
  /\ UNCHANGED <<now, kvFlag, wkResp, exVars, clVars>>

(***************************************************************************)
(* handleGetFlag, lines 119-131, and atomMiddleware, lines 78-82.          *)
(***************************************************************************)
WkValidate(p) ==
  /\ wk[p].pc = "validate"
  /\ wkHist' = [wkHist EXCEPT ![p].validated = TRUE]
  /\ IF ~Truthy(wk[p].param)
     THEN Respond(p, JsonResponse(FALSE, 400, "Country parameter is required.", NoUrl))
     ELSE LET normalizedInput == toUpperCase(trim(wk[p].param.text))
          IN  /\ wk' = [wk EXCEPT
                          ![p].pc = IF IsCountryCode(normalizedInput)
                                    THEN "cacheGet" ELSE "lookup",
                          ![p].country = normalizedInput,
                          ![p].param = NoParam]
              /\ UNCHANGED wkResp
  /\ UNCHANGED <<now, kvRate, kvFlag, wkLog, exVars, clVars>>

(***************************************************************************)
(* atomMiddleware, lines 84-102, and handleGetFlag, lines 132-141: the     *)
(* external name lookup answers.                                           *)
(***************************************************************************)
\* null, which like the empty string fails the test of line 133
NoCountry == <<>>

\* the mutation: a lookup that fails gives the input back
atomMiddlewareLookup_FailOpen(normalizedInput, outcome) ==
  IF LookupFailed(outcome) THEN normalizedInput
  ELSE toUpperCase(outcome.entries[1].cca2)

\* lines 84-102
atomMiddlewareLookup(normalizedInput, outcome) ==
  IF outcome.kind = "throw" THEN NoCountry
  ELSE IF outcome.isArray /\ Len(outcome.entries) > 0 /\ outcome.entries[1].cca2 # <<>>
  THEN toUpperCase(outcome.entries[1].cca2)
  ELSE NoCountry

WkLookup(p, outcome) ==
  /\ wk[p].pc = "lookup"
  /\ wkHist' = [wkHist EXCEPT
                  ![p].lookup = IF LookupFailed(outcome) THEN "failed" ELSE "matched"]
  /\ LET country == atomMiddlewareLookup(wk[p].country, outcome)
     IN  IF country # NoCountry
         THEN /\ wk' = [wk EXCEPT ![p].pc = "cacheGet", ![p].country = country]
              /\ UNCHANGED wkResp
         ELSE Respond(p, JsonResponse(FALSE, 400, "Invalid country name or code.", NoUrl))
  /\ UNCHANGED <<now, kvRate, kvFlag, wkLog, exVars, clVars>>

(***************************************************************************)
(* handleGetFlag, lines 143-154: the cache is read; a hit is answered, a   *)
(* miss calls fetchAndCacheFlag, whose fetchSignedCloudinaryUrl (lines     *)
(* 202-214) assembles the URL and sends the verification request.          *)
(***************************************************************************)
WkCacheGet(p) ==
  /\ wk[p].pc = "cacheGet"
  /\ LET cachedUrl == KVGet(kvFlag, FlagKey(wk[p].country), NoUrl)
         others == {q \in Handlers \ {p} :
                      /\ wk[q].pc \in {"originFetch", "cachePut"}
                      /\ wk[q].country = wk[p].country}
     IN  IF cachedUrl # NoUrl
         THEN /\ Respond(p, JsonResponse(TRUE, 200, "", cachedUrl))
              /\ wkHist' = [wkHist EXCEPT ![p].hit = TRUE,
                                           ![p].country = wk[p].country]
         ELSE /\ wk' = [wk EXCEPT ![p].pc = "originFetch",
                                  ![p].secureUrl = SignedUrl(wk[p].country)]
              /\ wkHist' = [q \in Handlers |->
                              IF q = p
                              THEN [wkHist[q] EXCEPT !.raced = others # {},
                                                     !.country = wk[p].country]
                              ELSE IF q \in others
                              THEN [wkHist[q] EXCEPT !.raced = TRUE]
                              ELSE wkHist[q]]
              /\ UNCHANGED wkResp
  /\ UNCHANGED <<now, kvRate, kvFlag, wkLog, exVars, clVars>>

\* a handler without the test of line 155: a failed fetch is answered 200
\* with the empty result
WkOriginFetch_NoEmptyTest(p, outcome) ==
  /\ wk[p].pc = "originFetch"
  /\ wkHist' = [wkHist EXCEPT ![p].fetched = TRUE, ![p].origin = outcome,
                               ![p].originCalls = @ + 1]
  /\ wkLog' = [wkLog EXCEPT
                 !.okUrls = IF outcome = "ok" THEN @ \cup {wk[p].secureUrl} ELSE @]
  /\ IF OriginSucceeded(outcome)
     THEN /\ wk' = [wk EXCEPT ![p].pc = "cachePut"]
          /\ UNCHANGED wkResp
     ELSE Respond(p, JsonResponse(TRUE, 200, "", NoUrl))
  /\ UNCHANGED <<now, kvRate, kvFlag, exVars, clVars>>

(***************************************************************************)
(* fetchSignedCloudinaryUrl, lines 215-218, fetchAndCacheFlag, lines 187   *)
(* and 192-195, handleGetFlag, lines 155-164: the origin answers.          *)
(***************************************************************************)
WkOriginFetch(p, outcome) ==
  /\ wk[p].pc = "originFetch"
  /\ wkHist' = [wkHist EXCEPT ![p].fetched = TRUE, ![p].origin = outcome,
                               ![p].originCalls = @ + 1]
  /\ wkLog' = [wkLog EXCEPT
                 !.okUrls = IF outcome = "ok" THEN @ \cup {wk[p].secureUrl} ELSE @]
  /\ IF OriginSucceeded(outcome)
     THEN /\ wk' = [wk EXCEPT ![p].pc = "cachePut"]
          /\ UNCHANGED wkResp
     ELSE Respond(p, JsonResponse(FALSE, 500, "Cloudinary fetch error", NoUrl))
  /\ UNCHANGED <<now, kvRate, kvFlag, exVars, clVars>>

(***************************************************************************)
(* fetchAndCacheFlag, lines 188-195, and handleGetFlag, lines 155-168: the  *)
(* URL is put into the cache and answered; a put that throws is caught and *)
(* answered like a failed fetch.                                           *)
(***************************************************************************)
WkCachePut(p, outcome) ==
  /\ wk[p].pc = "cachePut"
  /\ IF outcome = "ok"
     THEN /\ kvFlag' = KVPut(kvFlag, FlagKey(wk[p].country), wk[p].secureUrl, TTL_SECONDS)
          /\ wkHist' = [wkHist EXCEPT ![p].flagWrites = @ + 1]
          /\ Respond(p, JsonResponse(TRUE, 200, "", wk[p].secureUrl))
     ELSE /\ Respond(p, JsonResponse(FALSE, 500, "Cloudinary fetch error", NoUrl))
          /\ UNCHANGED <<kvFlag, wkHist>>
  /\ UNCHANGED <<now, kvRate, wkLog, exVars, clVars>>

(***************************************************************************)
(* Time passes; KV drops the keys whose TTL has run out.                   *)
(***************************************************************************)
WkTick ==
  /\ now + TickSec <= MaxTime
  /\ now' = now + TickSec
  /\ kvRate' = KVExpire(kvRate, now + TickSec)
  /\ kvFlag' = KVExpire(kvFlag, now + TickSec)
  /\ UNCHANGED <<wk, wkResp, wkHist, wkLog, exVars, clVars>>

(***************************************************************************)
(* The Worker keeps nothing between invocations; what it starts from is    *)
(* the content of FLAG_CACHE.  A run starts at second 0 with an empty flag *)
(* cache and a client that has been admitted `prior` times in this second  *)
(* (one after the other: SpecRate reaches these stores).                   *)
(***************************************************************************)
PriorRequests == {0, RATE_LIMIT_MAX - 1}

WkInit(prior) ==
  /\ now = 0
  /\ kvRate = IF prior = 0
              THEN EmptyKV
              ELSE [k \in {getRateLimitKey(ip) : ip \in ClientIps} |->
                      [value |-> toString(prior), expiresAt |-> RATE_LIMIT_WINDOW_SEC]]
  /\ kvFlag = [k \in {} |-> [value |-> NoUrl, expiresAt |-> 0]]
  /\ wk = [p \in Slots |-> WkIdle]
  /\ wkResp = [p \in Handlers |-> NoResp]
  /\ wkHist = [p \in Handlers |-> WkNoHist]
  /\ wkLog = [arrivals |-> 0, windowStart |-> 0, admitted |-> prior, okUrls |-> {}]

\* the Express server is not part of the Worker's runs
ExInit ==
  /\ nowMs = 0
  /\ cache = [k \in {} |-> [url |-> NoUrl, expiresAt |-> 0, start |-> 0]]
  /\ ongoingFetches = [k \in {} |-> NoPromise]
  /\ ex = ExIdle
  /\ exResp = [status |-> 0, success |-> FALSE, message |-> "", secureUrl |-> NoUrl]
  /\ exLog = [arrivals |-> 0, completed |-> {}, last |-> ExNoHist]

Init == (\E prior \in PriorRequests : WkInit(prior)) /\ ExInit /\ ClInit

\* a request to GET /api/getFlag from one of the clients
WkRequest(p) ==
  /\ wkLog.arrivals < MaxRequests
  /\ \E ip \in ClientIps, param \in CountryParams :
       WkArrive(p, "GET", GetFlagPath, ip, param)

Next ==
  \/ \E p \in Handlers :
       \/ WkRequest(p)
       \/ WkRateGet(p)
       \/ WkRatePut(p)
       \/ WkValidate(p)
       \/ \E outcome \in LookupOutcomes : WkLookup(p, outcome)
       \/ WkCacheGet(p)
       \/ \E outcome \in OriginOutcomes : WkOriginFetch(p, outcome)
       \/ \E outcome \in PutOutcomes : WkCachePut(p, outcome)
  \/ WkTick

Spec == Init /\ [][Next]_vars

(***************************************************************************)
(* One client asking without a country, one request after the other, in    *)
(* one window (the clock stands still): the rate limiter and the           *)
(* validation that follows it, for MaxRateRequests requests.               *)
(***************************************************************************)
InitRate == WkInit(0) /\ ExInit /\ ClInit

WkNextInTurn(p) ==
  /\ wkLog.arrivals < MaxRateRequests
  /\ \A q \in Handlers : ~InFlight(q)
  /\ \E ip \in ClientIps : WkArrive(p, "GET", GetFlagPath, ip, NoParam)

NextRate ==
  \E p \in Handlers :
    \/ WkNextInTurn(p)
    \/ WkRateGet(p)
    \/ WkRatePut(p)
    \/ WkValidate(p)

SpecRate == InitRate /\ [][NextRate]_vars

(***************************************************************************)
(* Claims about the Worker of src/unnamed/part_004.                        *)
(***************************************************************************)
Answered(p) == ~InFlight(p) /\ wkResp[p] # NoResp

\* C1: requests for the same key that all miss the cache before any of them
\* has written it make one origin fetch between them and are answered with
\* the same secureUrl.
C1_CoalescedMisses ==
  \A p, q \in Handlers :
    (p # q /\ wkHist[p].raced /\ wkHist[q].raced) =>
      /\ ~(wkHist[p].fetched /\ wkHist[q].fetched)
      /\ (Answered(p) /\ Answered(q)) => wkResp[p].secureUrl = wkResp[q].secureUrl

\* C2: one client asking one request after the other in one window: every
\* request up to number RATE_LIMIT_MAX passes the rate limiter (it increments
\* the counter and goes on to validation), and request RATE_LIMIT_MAX + 1 is
\* answered 429 "Rate limit exceeded." without incrementing the counter.
C2_SequentialLimit ==
  \A p \in Handlers :
    Answered(p) =>
      /\ wkLog.arrivals <= RATE_LIMIT_MAX =>
            /\ wkResp[p].status # 429
            /\ wkHist[p].validated
            /\ wkHist[p].rlWrites = 1
            /\ wkLog.admitted = wkLog.arrivals
      /\ wkLog.arrivals = RATE_LIMIT_MAX + 1 =>
            /\ wkResp[p].status = 429
            /\ wkResp[p].message = "Rate limit exceeded."
            /\ wkHist[p].rlWrites = 0
            /\ wkLog.admitted = RATE_LIMIT_MAX

C2_Witness ==
  \E p \in Handlers :
    /\ Answered(p)
    /\ wkLog.arrivals = RATE_LIMIT_MAX + 1
    /\ wkResp[p].status = 429

\* C3: whatever the interleaving of a client's requests, the number of them
\* admitted in one window (since the counter was last created) never exceeds
\* RATE_LIMIT_MAX.
C3_AtomicAdmit == wkLog.admitted <= RATE_LIMIT_MAX

\* C4: a client's window ends RATE_LIMIT_WINDOW_SEC after the first request
\* counted in it: from then on there is no counter, so the next request
\* starts a new window with count 1.
C4_FixedWindow ==
  \A ip \in ClientIps :
    KVLive(kvRate, getRateLimitKey(ip)) =>
      now < wkLog.windowStart + RATE_LIMIT_WINDOW_SEC

\* C9: a failed resolution writes nothing to the flag cache: the cache holds
\* only URLs the origin answered ok for, only a request whose origin fetch
\* succeeded gets to write, a request answered 500 has written nothing, and
\* a request answered from the cache gets a URL the origin answered ok for.
C9_NoNegativeCaching ==
  /\ \A k \in DOMAIN kvFlag : kvFlag[k].value \in wkLog.okUrls
  /\ \A p \in Handlers :
       /\ wk[p].pc = "cachePut" => wk[p].secureUrl \in wkLog.okUrls
       /\ (Answered(p) /\ wkResp[p].status = 500) =>
            wkHist[p].fetched /\ wkHist[p].flagWrites = 0
       /\ (Answered(p) /\ wkHist[p].hit) => wkResp[p].secureUrl \in wkLog.okUrls

C9_Witness ==
  \E p \in Handlers :
    /\ Answered(p)
    /\ wkResp[p].status = 500
    /\ wkHist[p].fetched
    /\ DOMAIN kvFlag = {}

UserAgents == {"curl/8.5"}
RfCountryParams == {NoParam, Param(<<"d", "e">>), Param(<<"z", "z", "9">>)}

\* isRateLimited, lines 35-37
RfRateLimitKey(ip, ua) ==
  <<RATE_LIMIT_KEY_PREFIX, IF ip = "" THEN "unknown" ELSE ip, "_",
    IF ua = "" THEN "unknown" ELSE ua>>

\* fetchFromCloudinary, lines 67-93: the signature is the SHA-256 digest of
\* "timestamp=<expiresAt>" followed by the API secret
RfSignedUrl(country) ==
  LET filePath == <<"flags/">> \o country \o <<".svg">>
      expiresAt == now + TTL_SECONDS
  IN  [public_id |-> filePath,
       timestamp |-> expiresAt,
       signature |-> <<"SHA-256", "timestamp=", toString(expiresAt),
                       "CLOUDINARY_API_SECRET">>]

Refreshing(t) == wk[t].pc # "idle"

\* validateQueryParams, lines 54-60: the error message, "" for null
validateQueryParams_Lenient(param) ==
  IF ~Truthy(param)
  THEN "Invalid country parameter. Must be a 2-letter uppercase country code."
  ELSE ""
validateQueryParams(param) ==
  IF ~Truthy(param) \/ ~IsCountryCode(toUpperCase(param.text))
  THEN "Invalid country parameter. Must be a 2-letter uppercase country code."
  ELSE ""

\* the request asks for no country or for something other than two letters
NoTwoLetters(param) ==
  \/ ~param.given
  \/ Len(param.text) # 2
  \/ \E i \in 1..Len(param.text) :
       \A j \in 1..Len(UpperLetters) :
         param.text[i] # LowerLetters[j] /\ param.text[i] # UpperLetters[j]

\* fetch, lines 14-22
RfArrive(p, path, ip, ua, param) ==
  /\ ~InFlight(p)
  /\ \A q \in Handlers : q < p => InFlight(q)
  /\ wkLog' = [wkLog EXCEPT !.arrivals = @ + 1]
  /\ wkHist' = [wkHist EXCEPT ![p] =
                   [WkNoHist EXCEPT !.bad = path = GetFlagPath /\ NoTwoLetters(param)]]
  /\ IF path # GetFlagPath
     THEN Respond(p, RfJsonResponse(FALSE, 404, "Not Found", NoUrl))
     ELSE /\ wk' = [wk EXCEPT ![p] =
                      [WkIdle EXCEPT !.pc = "rateGet", !.ip = ip, !.ua = ua,
                                     !.param = param]]
          /\ wkResp' = [wkResp EXCEPT ![p] = NoResp]
  /\ UNCHANGED <<now, kvRate, kvFlag, exVars, clVars>>

\* isRateLimited, lines 39-44, and handleGetFlag, lines 126-131
RfRateGet(p) ==
  /\ wk[p].pc = "rateGet"
  /\ LET key == RfRateLimitKey(wk[p].ip, wk[p].ua)
         requestCount == KVGet(kvRate, key, <<>>)
         count == IF requestCount # <<>> THEN parseInt(requestCount) ELSE 0
     IN  /\ wkHist' = [wkHist EXCEPT ![p].rlReads = @ + 1]
         /\ IF count >= RATE_LIMIT_MAX
            THEN Respond(p, RfJsonResponse(FALSE, 429, "Rate limit exceeded.", NoUrl))
            ELSE /\ wk' = [wk EXCEPT ![p].pc = "ratePut", ![p].count = count]
                 /\ UNCHANGED wkResp
  /\ UNCHANGED <<now, kvRate, kvFlag, wkLog, exVars, clVars>>

\* isRateLimited, lines 46-50
RfRatePut(p) ==
  /\ wk[p].pc = "ratePut"
  /\ LET key == RfRateLimitKey(wk[p].ip, wk[p].ua)
         live == KVLive(kvRate, key)
     IN  /\ kvRate' = KVPut(kvRate, key, toString(wk[p].count + 1), RATE_LIMIT_WINDOW_SEC)
         /\ wkLog' = [wkLog EXCEPT
                        !.windowStart = IF live THEN @ ELSE now,
                        !.admitted = IF live THEN @ + 1 ELSE 1]
  /\ wk' = [wk EXCEPT ![p].pc = "validate", ![p].count = 0, ![p].ip = "", ![p].ua = ""]
  /\ wkHist' = [wkHist EXCEPT ![p].rlWrites = @ + 1]
  /\ UNCHANGED <<now, kvFlag, wkResp, exVars, clVars>>

\* validateQueryParams, lines 54-60, and handleGetFlag, lines 134-140
RfValidate(p) ==
  /\ wk[p].pc = "validate"
  /\ wkHist' = [wkHist EXCEPT ![p].validated = TRUE]
  /\ LET errorMessage == validateQueryParams(wk[p].param)
         country == toUpperCase(wk[p].param.text)
     IN  IF errorMessage # ""
         THEN Respond(p, RfJsonResponse(FALSE, 400, errorMessage, NoUrl))
         ELSE /\ wk' = [wk EXCEPT ![p].pc = "cacheGet", ![p].country = country,
                                  ![p].param = NoParam]
              /\ UNCHANGED wkResp
  /\ UNCHANGED <<now, kvRate, kvFlag, wkLog, exVars, clVars>>

\* a handler that awaits the refresh and answers with its outcome
RfCacheGet_AwaitsRefresh(p) ==
  /\ wk[p].pc = "cacheGet"
  /\ wk' = [wk EXCEPT ![p].pc = "fetchPut",
                      ![p].secureUrl = RfSignedUrl(wk[p].country)]
  /\ wkHist' = [wkHist EXCEPT ![p].fetched = TRUE]
  /\ UNCHANGED <<now, kvRate, kvFlag, wkResp, wkLog, exVars, clVars>>

(***************************************************************************)
(* handleGetFlag, lines 143-160.  On a hit the async function of lines     *)
(* 145-154 is called and runs up to its first await: fetchAndCacheFlag and *)
(* fetchFromCloudinary are entered and the URL's timestamp is taken; the   *)
(* cached URL is answered while that refresh goes on in slot t.  On a miss *)
(* the request itself goes through fetchAndCacheFlag.                      *)
(***************************************************************************)
RfCacheGet(p) ==
  /\ wk[p].pc = "cacheGet"
  /\ LET cachedUrl == KVGet(kvFlag, FlagKey(wk[p].country), NoUrl)
     IN  IF cachedUrl # NoUrl
         THEN \E t \in Refreshers :
                /\ ~Refreshing(t)
                /\ \A u \in Refreshers : u < t => Refreshing(u)
                /\ wk' = [wk EXCEPT
                            ![p] = WkIdle,
                            ![t] = [WkIdle EXCEPT
                                      !.pc = "refreshPut",
                                      !.country = wk[p].country,
                                      !.secureUrl = RfSignedUrl(wk[p].country)]]
                /\ wkResp' = [wkResp EXCEPT ![p] = RfJsonResponse(TRUE, 200, "", cachedUrl)]
                /\ wkHist' = [wkHist EXCEPT ![p].hit = TRUE, ![p].refreshes = @ + 1]
         ELSE /\ wk' = [wk EXCEPT ![p].pc = "fetchPut",
                                  ![p].secureUrl = RfSignedUrl(wk[p].country)]
              /\ wkHist' = [wkHist EXCEPT ![p].fetched = TRUE]
              /\ UNCHANGED wkResp
  /\ UNCHANGED <<now, kvRate, kvFlag, wkLog, exVars, clVars>>

\* fetchAndCacheFlag, lines 101-118, and handleGetFlag, lines 159-175
RfFetchPut(p, outcome) ==
  /\ wk[p].pc = "fetchPut"
  /\ IF outcome = "ok"
     THEN /\ kvFlag' = KVPut(kvFlag, FlagKey(wk[p].country), wk[p].secureUrl, TTL_SECONDS)
          /\ wkHist' = [wkHist EXCEPT ![p].flagWrites = @ + 1]
          /\ Respond(p, RfJsonResponse(TRUE, 200, "", wk[p].secureUrl))
     ELSE /\ Respond(p, RfJsonResponse(FALSE, 500, "Cloudinary fetch error", NoUrl))
          /\ UNCHANGED <<kvFlag, wkHist>>
  /\ UNCHANGED <<now, kvRate, wkLog, exVars, clVars>>

\* fetchAndCacheFlag, lines 101-118, called from line 146: the refresh puts
\* its URL; a put that throws makes refreshedUrl "" and ends the refresh, and
\* so does the runtime when it ends the invocation after the answer (the
\* refresh is not handed to waitUntil)
RfRefreshPut(t, outcome) ==
  /\ wk[t].pc = "refreshPut"
  /\ IF outcome = "ok"
     THEN /\ kvFlag' = KVPut(kvFlag, FlagKey(wk[t].country), wk[t].secureUrl, TTL_SECONDS)
          /\ wk' = [wk EXCEPT ![t].pc = "refreshReput"]
     ELSE /\ wk' = [wk EXCEPT ![t] = WkIdle]
          /\ UNCHANGED kvFlag
  /\ UNCHANGED <<now, kvRate, wkResp, wkHist, wkLog, exVars, clVars>>

\* lines 149-153: the refreshed URL is put once more, unless the put throws
\* or the invocation is ended first
RfRefreshReput(t, outcome) ==
  /\ wk[t].pc = "refreshReput"
  /\ kvFlag' = IF outcome = "ok"
               THEN KVPut(kvFlag, FlagKey(wk[t].country), wk[t].secureUrl, TTL_SECONDS)
               ELSE kvFlag
  /\ wk' = [wk EXCEPT ![t] = WkIdle]
  /\ UNCHANGED <<now, kvRate, wkResp, wkHist, wkLog, exVars, clVars>>

RfRequest(p) ==
  /\ wkLog.arrivals < MaxRefreshRequests
  /\ \E path \in {GetFlagPath, "/"}, ip \in ClientIps, ua \in UserAgents,
        param \in RfCountryParams :
       RfArrive(p, path, ip, ua, param)

NextRefresh ==
  \/ \E p \in Handlers :
       \/ RfRequest(p)
       \/ RfRateGet(p)
       \/ RfRatePut(p)
       \/ RfValidate(p)
       \/ RfCacheGet(p)
       \/ \E outcome \in PutOutcomes : RfFetchPut(p, outcome)
  \/ \E t \in Refreshers, outcome \in PutOutcomes :
       \/ RfRefreshPut(t, outcome)
       \/ RfRefreshReput(t, outcome)
  \/ WkTick

\* as WkInit, the client's counter being under this revision's key
RfInit(prior) ==
  /\ now = 0
  /\ kvRate = IF prior = 0
              THEN EmptyKV
              ELSE [k \in {RfRateLimitKey(ip, ua) : ip \in ClientIps, ua \in UserAgents} |->
                      [value |-> toString(prior), expiresAt |-> RATE_LIMIT_WINDOW_SEC]]
  /\ kvFlag = [k \in {} |-> [value |-> NoUrl, expiresAt |-> 0]]
  /\ wk = [p \in Slots |-> WkIdle]
  /\ wkResp = [p \in Handlers |-> NoResp]
  /\ wkHist = [p \in Handlers |-> WkNoHist]
  /\ wkLog = [arrivals |-> 0, windowStart |-> 0, admitted |-> prior, okUrls |-> {}]

InitRefresh == (\E prior \in {0, RATE_LIMIT_MAX} : RfInit(prior)) /\ ExInit /\ ClInit

SpecRefresh == InitRefresh /\ [][NextRefresh]_vars

(***************************************************************************)
(* Claims about the Worker revision with the background refresh.           *)
(***************************************************************************)
\* C7: a request that finds the key's URL in the cache is answered 200 with
\* that URL and fetchAndCacheFlag / fetchFromCloudinary is not called for it.
C7_CacheHitShortCircuit ==
  \A p \in Handlers :
    (Answered(p) /\ wkHist[p].hit) =>
      /\ wkResp[p].status = 200
      /\ wkResp[p].secureUrl # NoUrl
      /\ wkHist[p].refreshes = 0
      /\ ~wkHist[p].fetched

\* C8: at most one background refresh per key is in flight at any time.
C8_OneRefreshPerKey ==
  \A t, u \in Refreshers :
    (t # u /\ Refreshing(t) /\ Refreshing(u)) => wk[t].country # wk[u].country

(***************************************************************************)
(* The Express server of backend/serverCloudwareWorker.ts, lines 346-575.  *)
(* Its rate limiter is the express-rate-limit library and is left out; so  *)
(* is the LRU cache's capacity of MAX_CACHED_ITEMS, which the handful of   *)
(* keys of a run never reaches.                                            *)
(***************************************************************************)
\* line 399
CACHE_TTL == 12 * 60 * 60 * 1000 - 5 * 60 * 1000
\* fetchAndCacheFlag, line 522
expiresInSeconds == 12 * 60 * 60
ExpressTickMs == 6 * 60 * 60 * 1000

ExpressQueries ==
  {NoParam, Param(<<"D", "E">>), Param(<<"F", "R">>), Param(<<"d", "e">>),
   Param(<<" ", "D">>), Param(<<"D">>), Param(<<"1", "2">>)}

\* successResponse, lines 425-430, and catchErrorResponse, lines 435-443
successResponse(secureUrl) ==
  [status |-> 200, success |-> TRUE, message |-> "Success", secureUrl |-> secureUrl]
catchErrorResponse(message, statusCode) ==
  [status |-> statusCode, success |-> FALSE, message |-> message, secureUrl |-> NoUrl]

\* flagQueryValidationSchema, lines 448-461: strict() makes trim() and
\* uppercase() tests of the value as sent; "" where the value passes
JoiError(query) ==
  CASE ~query.given -> "\"country\" is required"
    [] query.text = <<>> -> "\"country\" cannot be empty"
    [] trim(query.text) # query.text ->
         "\"country\" must not have leading or trailing whitespace"
    [] toUpperCase(query.text) # query.text ->
         "\"country\" must only contain uppercase characters"
    [] Len(query.text) # 2 -> "\"country\" must be exactly 2 characters long"
    [] OTHER -> ""

\* the LRUCache of lines 400-404: an entry is stale once it is older than
\* ttl; get answers undefined for a stale entry and drops it
\* a store whose ttl is the full lifetime of the URL, without the buffer
LruFresh_NoBuffer(key) ==
  key \in DOMAIN cache /\ nowMs - cache[key].start <= expiresInSeconds * 1000
LruFresh(key) == key \in DOMAIN cache /\ nowMs - cache[key].start <= CACHE_TTL
MapDelete(map, key) == [k \in DOMAIN map \ {key} |-> map[k]]
MapSet(map, key, value) ==
  [k \in DOMAIN map \cup {key} |-> IF k = key THEN value ELSE map[k]]

\* cloudinary.v2.url(filePath, {sign_url, expires_at, format}), lines 521-527
ExSignedUrl(country) ==
  [public_id |-> <<"flags/">> \o country \o <<".svg">>,
   timestamp |-> (nowMs \div 1000) + expiresInSeconds,
   signature |-> <<"cloudinary.v2.url", "webp">>]

\* the part of the IIFE of lines 519-541 that is running: its try block or
\* its finally block
Executing(key) == ex.pc \in {"generate", "finally"} /\ ex.cacheKey = key

(***************************************************************************)
(* validateQueryParams, lines 466-476, and getFlagHandler, lines 481-503,  *)
(* up to the call of fetchAndCacheFlag.  The refresh of line 494 is called *)
(* without res.                                                            *)
(***************************************************************************)
ExArrive(query) ==
  /\ ex.pc = "idle"
  /\ exLog.arrivals < MaxExpressRequests
  /\ IF JoiError(query) # ""
     THEN /\ exResp' = catchErrorResponse(JoiError(query), 400)
          /\ exLog' = [exLog EXCEPT !.arrivals = @ + 1,
                                    !.last = [ExNoHist EXCEPT !.at = nowMs, !.sent = 1]]
          /\ UNCHANGED <<cache, ex>>
     ELSE LET country == query.text
              cacheKey == <<"flag_">> \o country
              entered == [ExIdle EXCEPT !.pc = "fetchAndCacheFlag",
                                        !.country = country,
                                        !.cacheKey = cacheKey]
          IN  IF LruFresh(cacheKey)
              THEN /\ exResp' = successResponse(cache[cacheKey].url)
                   /\ exLog' = [exLog EXCEPT !.arrivals = @ + 1,
                                             !.last = [ExNoHist EXCEPT !.at = nowMs,
                                                                       !.valid = TRUE,
                                                                       !.sent = 1]]
                   /\ ex' = IF nowMs >= cache[cacheKey].expiresAt
                            THEN entered
                            ELSE ExIdle
                   /\ UNCHANGED cache
              ELSE /\ cache' = MapDelete(cache, cacheKey)
                   /\ ex' = [entered EXCEPT !.res = TRUE]
                   /\ exResp' = [status |-> 0, success |-> FALSE, message |-> "",
                                 secureUrl |-> NoUrl]
                   /\ exLog' = [exLog EXCEPT
                                  !.arrivals = @ + 1,
                                  !.last = [ExNoHist EXCEPT
                                              !.cacheKey = cacheKey,
                                              !.at = nowMs,
                                              !.missed = TRUE,
                                              !.valid = TRUE,
                                              !.afterCompleted = cacheKey \in exLog.completed]]
  /\ UNCHANGED <<nowMs, ongoingFetches, wkVars, clVars>>

\* fetchAndCacheFlag, lines 513-514: has(cacheKey), and get(cacheKey) if so
ExHas ==
  /\ ex.pc = "fetchAndCacheFlag"
  /\ ex' = IF ex.cacheKey \in DOMAIN ongoingFetches
           THEN [ex EXCEPT !.pc = "awaitExisting", !.promise = ongoingFetches[ex.cacheKey]]
           ELSE [ex EXCEPT !.pc = "generate"]
  /\ UNCHANGED <<nowMs, cache, ongoingFetches, exResp, exLog, wkVars, clVars>>

\* lines 514-516 after the await; a rejected promise throws out of
\* fetchAndCacheFlag into getFlagHandler's catch (lines 500-501) and from
\* there to the error handler of lines 568-571
ExAwaitExisting ==
  /\ ex.pc = "awaitExisting"
  /\ exResp' = IF ~ex.res THEN exResp
               ELSE IF ex.promise.state = "fulfilled"
               THEN successResponse(ex.promise.url)
               ELSE catchErrorResponse(ex.promise.message, 500)
  /\ exLog' = [exLog EXCEPT !.last.sent = IF ex.res THEN @ + 1 ELSE @]
  /\ ex' = ExIdle
  /\ UNCHANGED <<nowMs, cache, ongoingFetches, wkVars, clVars>>

\* the IIFE's try and catch blocks, lines 520-537: it has no await, so it
\* runs when it is called and its promise is settled when it returns
ExGenerate(outcome) ==
  /\ ex.pc = "generate"
  /\ IF outcome = "ok"
     THEN LET signedUrl == ExSignedUrl(ex.country)
          IN  /\ cache' = MapSet(cache, ex.cacheKey,
                                 [url |-> signedUrl,
                                  expiresAt |-> nowMs + expiresInSeconds * 1000,
                                  start |-> nowMs])
              /\ ex' = [ex EXCEPT !.pc = "finally",
                                  !.promise = [NoPromise EXCEPT !.state = "fulfilled",
                                                                !.url = signedUrl]]
     ELSE /\ ex' = [ex EXCEPT !.pc = "finally",
                              !.promise = [NoPromise EXCEPT
                                             !.state = "rejected",
                                             !.message = "Failed to generate flag URL"]]
          /\ UNCHANGED cache
  /\ exLog' = [exLog EXCEPT !.last.generated = TRUE]
  /\ UNCHANGED <<nowMs, ongoingFetches, exResp, wkVars, clVars>>

\* the IIFE's finally block, lines 538-540, after which the IIFE returns
ExFinally ==
  /\ ex.pc = "finally"
  /\ ongoingFetches' = MapDelete(ongoingFetches, ex.cacheKey)
  /\ ex' = [ex EXCEPT !.pc = "register"]
  /\ exLog' = [exLog EXCEPT !.completed = @ \cup {ex.cacheKey}]
  /\ UNCHANGED <<nowMs, cache, exResp, wkVars, clVars>>

\* line 543
ExRegister ==
  /\ ex.pc = "register"
  /\ ongoingFetches' = MapSet(ongoingFetches, ex.cacheKey, ex.promise)
  /\ ex' = [ex EXCEPT !.pc = "awaitOwn"]
  /\ UNCHANGED <<nowMs, cache, exResp, exLog, wkVars, clVars>>

\* a fetchAndCacheFlag whose catch of line 548 answers nothing
ExAwaitOwn_SilentCatch ==
  /\ ex.pc = "awaitOwn"
  /\ exResp' = IF ex.res /\ ex.promise.state = "fulfilled"
               THEN successResponse(ex.promise.url)
               ELSE exResp
  /\ exLog' = [exLog EXCEPT !.last.sent =
                  IF ex.res /\ ex.promise.state = "fulfilled" THEN @ + 1 ELSE @]
  /\ ex' = ExIdle
  /\ UNCHANGED <<nowMs, cache, ongoingFetches, wkVars, clVars>>

\* lines 545-550
ExAwaitOwn ==
  /\ ex.pc = "awaitOwn"
  /\ exResp' = IF ~ex.res THEN exResp
               ELSE IF ex.promise.state = "fulfilled"
               THEN successResponse(ex.promise.url)
               ELSE catchErrorResponse("Failed to generate flag URL", 500)
  /\ exLog' = [exLog EXCEPT !.last.sent = IF ex.res THEN @ + 1 ELSE @]
  /\ ex' = ExIdle
  /\ UNCHANGED <<nowMs, cache, ongoingFetches, wkVars, clVars>>

\* time passes between requests
ExTick ==
  /\ ex.pc = "idle"
  /\ nowMs < MaxExpressTicks * ExpressTickMs
  /\ nowMs' = nowMs + ExpressTickMs
  /\ UNCHANGED <<cache, ongoingFetches, ex, exResp, exLog, wkVars, clVars>>

ExRequest == \E query \in ExpressQueries : ExArrive(query)

InitExpress == WkInit(0) /\ ExInit /\ ClInit

NextExpress ==
  \/ ExRequest
  \/ ExHas
  \/ ExAwaitExisting
  \/ \E outcome \in {"ok", "throw"} : ExGenerate(outcome)
  \/ ExFinally
  \/ ExRegister
  \/ ExAwaitOwn
  \/ ExTick

SpecExpress == InitExpress /\ [][NextExpress]_vars

(***************************************************************************)
(* Claims about the Express server.                                        *)
(***************************************************************************)
ExKeys == {<<"flag_">> \o query.text : query \in {q \in ExpressQueries : JoiError(q) = ""}}

\* C5: between requests, a cache key is in ongoingFetches if and only if the
\* URL generation for that key is executing; once the generation has
\* returned or thrown the key is not in the map.
C5_OngoingIffExecuting ==
  ex.pc = "idle" =>
    \A key \in ExKeys : key \in DOMAIN ongoingFetches <=> Executing(key)

\* C6: a request that misses the cache for a key whose earlier generation has
\* completed generates anew: it is answered with the URL generated for it,
\* which is then in the cache, or with its own attempt's error.
C6_FreshAfterCompletion ==
  (ex.pc = "idle" /\ exLog.last.missed /\ exLog.last.afterCompleted) =>
    /\ exLog.last.generated
    /\ exResp.status = 200 =>
         /\ exLog.last.cacheKey \in DOMAIN cache
         /\ cache[exLog.last.cacheKey].url = exResp.secureUrl

C12_RefusalChangesNothing ==
  /\ [](\A p \in Handlers :
          (Answered(p) /\ wkResp[p].status = 429) =>
            /\ wkHist[p].rlReads = 1 /\ wkHist[p].rlWrites = 0
            /\ ~wkHist[p].validated
            /\ ~wkHist[p].hit /\ ~wkHist[p].fetched
            /\ wkHist[p].flagWrites = 0)
  /\ [][\A p \in Handlers :
          (wk[p].pc = "rateGet" /\ wk'[p].pc = "idle") =>
            /\ wkResp'[p].status = 429
            /\ kvRate' = kvRate
            /\ kvFlag' = kvFlag]_vars

C12_Witness ==
  \E p \in Handlers :
    /\ Answered(p)
    /\ wkResp[p].status = 429
    /\ wkLog.admitted = RATE_LIMIT_MAX
    /\ DOMAIN kvFlag # {}

\* C13: a request whose origin answered not-ok and a request whose origin
\* fetch threw are not answered with the same status and message.
C13_TypedFailure ==
  \A p, q \in Handlers :
    (/\ Answered(p) /\ wkHist[p].origin = "notOk"
     /\ Answered(q) /\ wkHist[q].origin = "throw") =>
      <<wkResp[p].status, wkResp[p].message>> # <<wkResp[q].status, wkResp[q].message>>

\* C14: a request is answered 500 for an origin fetch that threw only after
\* the origin fetch has been attempted again.
C14_RetriedBeforeFailing ==
  \A p \in Handlers :
    (Answered(p) /\ wkHist[p].origin = "throw" /\ wkResp[p].status = 500) =>
      wkHist[p].originCalls >= 2

(***************************************************************************)
(* The Worker of src/unnamed/part_004 with a FLAG_CACHE whose calls may     *)
(* throw, and with every kind of request handleRequest tells apart.  The   *)
(* awaits of isRateLimited (lines 63 and 70) and the cache read of         *)
(* handleGetFlag (line 144) are in no try block: when one of them throws,  *)
(* handleGetFlag, handleRequest and fetch reject and no Response is        *)
(* returned.  Every call that is awaited returns or throws in the end.     *)
(***************************************************************************)
Rejected == [NoResp EXCEPT !.message = "uncaught exception"]

WkKvThrow(p) ==
  /\ wk[p].pc \in {"rateGet", "ratePut", "cacheGet"}
  /\ Respond(p, Rejected)
  /\ UNCHANGED <<now, kvRate, kvFlag, wkHist, wkLog, exVars, clVars>>

WkAnyRequest(p) ==
  /\ wkLog.arrivals < MaxRequests
  /\ \E method \in {"GET", "OPTIONS"}, path \in {GetFlagPath, "/"},
        ip \in ClientIps, param \in CountryParams :
       WkArrive(p, method, path, ip, param)

\* the calls a request in flight waits for
WkStep(p) ==
  \/ WkRateGet(p)
  \/ WkRatePut(p)
  \/ WkValidate(p)
  \/ \E outcome \in LookupOutcomes : WkLookup(p, outcome)
  \/ WkCacheGet(p)
  \/ \E outcome \in OriginOutcomes : WkOriginFetch(p, outcome)
  \/ \E outcome \in PutOutcomes : WkCachePut(p, outcome)
  \/ WkKvThrow(p)

NextFaults ==
  \E p \in Handlers :
    \/ WkAnyRequest(p)
    \/ WkRateGet(p)
    \/ WkRatePut(p)
    \/ WkValidate(p)
    \/ \E outcome \in LookupOutcomes : WkLookup(p, outcome)
    \/ WkCacheGet(p)
    \/ \E outcome \in OriginOutcomes : WkOriginFetch(p, outcome)
    \/ \E outcome \in PutOutcomes : WkCachePut(p, outcome)
    \/ WkKvThrow(p)

SpecFaults ==
  /\ InitRate
  /\ [][NextFaults]_vars
  /\ \A p \in Handlers : WF_vars(WkStep(p))

\* C15: every request handleRequest has accepted is in the end answered with
\* a Response of status 204, 200, 400, 404, 429 or 500.
C15_AlwaysAnswered ==
  \A p \in Handlers :
    InFlight(p) ~>
      (~InFlight(p) /\ wkResp[p].status \in {204, 200, 400, 404, 429, 500})

\* C16: in the revision with the background refresh, the step in which a
\* request finds its key in the cache answers it 200 with the URL it read,
\* and no step of a refresh (its puts, their failures, its end) changes any
\* response.
C16_HitAnsweredApartFromRefresh ==
  /\ [][\A p \in Handlers :
          LET cachedUrl == KVGet(kvFlag, FlagKey(wk[p].country), NoUrl)
          IN  (wk[p].pc = "cacheGet" /\ wk'[p].pc # "cacheGet" /\ cachedUrl # NoUrl) =>
                /\ wk'[p].pc = "idle"
                /\ wkResp'[p] = RfJsonResponse(TRUE, 200, "", cachedUrl)]_vars
  /\ [][(\E t \in Refreshers : Refreshing(t) /\ wk'[t] # wk[t]) =>
          wkResp' = wkResp]_vars
  /\ [](\A p \in Handlers :
          (Answered(p) /\ wkHist[p].hit) =>
            wkResp[p].status = 200 /\ wkResp[p].secureUrl # NoUrl)

\* a request answered from the cache whose refresh has failed at its first
\* put while the refresh of another hit is still going on
C16_Witness ==
  \E p \in Handlers :
    /\ Answered(p) /\ wkHist[p].hit
    /\ wkResp[p].status = 200
    /\ \E t \in Refreshers : wk[t].pc = "refreshReput"
    /\ \E t \in Refreshers : ~Refreshing(t)

\* C17: every response of handleGetFlag has status 200, 400, 429 or 500; its
\* success is true exactly when the status is 200; a 200 carries a URL and
\* every other response carries a message.
C17_ResponseShape ==
  \A p \in Handlers :
    Answered(p) =>
      /\ wkResp[p].status \in {200, 400, 429, 500}
      /\ wkResp[p].success <=> wkResp[p].status = 200
      /\ wkResp[p].status = 200 =>
           wkResp[p].secureUrl # NoUrl /\ wkResp[p].secureUrl.public_id # <<>>
      /\ wkResp[p].status # 200 => wkResp[p].message # ""

C17_Witness ==
  \E p, q \in Handlers :
    /\ Answered(p) /\ wkResp[p].status = 200 /\ wkResp[p].success
    /\ Answered(q) /\ wkResp[q].status = 500 /\ ~wkResp[q].success

\* the URL is one built for country K: flags/K.svg, signed
BuiltFor(url, K) ==
  /\ url.public_id = <<"flags/">> \o K \o <<".svg">>
  /\ url.signature # <<>>

\* C18: the entry under flag_K holds a URL built for K, and a 200 to a
\* request whose country came out as K carries a URL built for K.
C18_UrlOfItsKey ==
  /\ \A k \in DOMAIN kvFlag :
       /\ k[1] = "flag_"
       /\ BuiltFor(kvFlag[k].value, SubSeq(k, 2, Len(k)))
  /\ \A p \in Handlers :
       (Answered(p) /\ wkResp[p].status = 200) =>
         /\ wkHist[p].country # <<>>
         /\ BuiltFor(wkResp[p].secureUrl, wkHist[p].country)

\* a request for DE and a request for a name looked up as FR, both answered
\* 200, with both URLs in the cache
C18_Witness ==
  \E p, q \in Handlers :
    /\ Answered(p) /\ wkResp[p].status = 200 /\ wkHist[p].country = <<"D", "E">>
    /\ Answered(q) /\ wkResp[q].status = 200 /\ wkHist[q].country = <<"F", "R">>
    /\ DOMAIN kvFlag = {FlagKey(<<"D", "E">>), FlagKey(<<"F", "R">>)}

(***************************************************************************)
(* Further claims about the Express server.                                *)
(***************************************************************************)
\* C19: every key under which the flag cache and ongoingFetches are read or
\* written, and every country a URL is built for, is two letters A-Z.
C19_KeysAreTwoLetters ==
  /\ \A key \in DOMAIN cache \cup DOMAIN ongoingFetches :
       key[1] = "flag_" /\ IsCountryCode(SubSeq(key, 2, Len(key)))
  /\ ex.pc # "idle" => IsCountryCode(ex.country)
  /\ exResp.status = 200 =>
       LET id == exResp.secureUrl.public_id
       IN  IsCountryCode(SubSeq(id, 2, Len(id) - 1))

\* C20: a URL answered in a success response has not passed its signed expiry
\* time (the second of its generation + 12 h) when the request is answered.
C20_NeverStale ==
  (ex.pc = "idle" /\ exResp.status = 200) =>
    exLog.last.at < exResp.secureUrl.timestamp * 1000

(***************************************************************************)
(* generateCloudinarySignature of src/unnamed/part_004 on any parameter    *)
(* map.  A parameter map is the sequence of its [key, value] entries in    *)
(* insertion order, which is the order of Object.keys for keys that are    *)
(* not array indices; a key is the sequence of its characters.  The        *)
(* HMAC and its hexadecimal encoding are not computed: a signature is the  *)
(* triple of the algorithm, the key and the message, so two signatures are *)
(* equal exactly when they sign the same message under the same key.       *)
(***************************************************************************)
MaxParams == 3

\* the UTF-16 code units of the characters that occur in keys, ascending
CodeUnitOrder == Digits \o UpperLetters \o <<"_">> \o LowerLetters
charCode(c) == CHOOSE i \in 1..Len(CodeUnitOrder) : CodeUnitOrder[i] = c

\* s sorts before t under Array.prototype.sort's default comparison
RECURSIVE Before(_, _)
Before(s, t) ==
  IF t = <<>> THEN FALSE
  ELSE IF s = <<>> THEN TRUE
  ELSE IF charCode(s[1]) # charCode(t[1]) THEN charCode(s[1]) < charCode(t[1])
  ELSE Before(Tail(s), Tail(t))

RECURSIVE InsertKey(_, _)
InsertKey(k, sorted) ==
  IF sorted = <<>> THEN <<k>>
  ELSE IF Before(sorted[1], k) THEN <<sorted[1]>> \o InsertKey(k, Tail(sorted))
  ELSE <<k>> \o sorted

\* the mutation: the keys are left in insertion order
sort_InsertionOrder(keys) == keys

RECURSIVE sort(_)
sort(keys) ==
  IF keys = <<>> THEN <<>> ELSE InsertKey(keys[1], sort(Tail(keys)))

ObjectKeys(params) == [i \in 1..Len(params) |-> params[i].key]
Lookup(params, k) == (CHOOSE i \in 1..Len(params) : params[i].key = k)
ValueOf(params, k) == params[Lookup(params, k)].value

RECURSIVE join(_, _)
join(parts, sep) ==
  IF parts = <<>> THEN <<>>
  ELSE IF Len(parts) = 1 THEN parts[1]
  ELSE parts[1] \o sep \o join(Tail(parts), sep)

\* Object.keys(params).sort().map(key => `${key}=${params[key]}`).join("&")
queryString(params) ==
  LET keys == sort(ObjectKeys(params))
  IN join([i \in 1..Len(keys) |-> keys[i] \o <<"=">> \o ValueOf(params, keys[i])],
          <<"&">>)

signatureOf(params) ==
  [algorithm |-> "HMAC-SHA1", key |-> "CLOUDINARY_API_SECRET",
   message |-> queryString(params)]

SgKeys ==
  { <<"t","i","m","e","s","t","a","m","p">>,
    <<"p","u","b","l","i","c","_","i","d">>,
    <<"t","y","p","e">> }
SgValues(k) ==
  IF k = <<"t","i","m","e","s","t","a","m","p">> THEN {toString(43200), toString(43650)}
  ELSE IF k = <<"t","y","p","e">> THEN {<<"upload">>}
  ELSE {<<"flags/", "D", "E", ".svg">>, <<"flags/", "F", "R", ".svg">>}

\* the parameter maps: up to MaxParams entries, no key twice
ParamMaps ==
  UNION { { m \in [1..n -> {[key |-> k, value |-> v] : k \in SgKeys,
                            v \in UNION {SgValues(kk) : kk \in SgKeys}}] :
              /\ \A i \in 1..n : m[i].value \in SgValues(m[i].key)
              /\ \A i, j \in 1..n : i # j => m[i].key # m[j].key }
          : n \in 1..MaxParams }

Entries(params) == {params[i] : i \in 1..Len(params)}
Unsigned == <<>>

SgSignA ==
  /\ sg.signedA = Unsigned
  /\ sg' = [sg EXCEPT !.signedA = signatureOf(sg.a)]
  /\ UNCHANGED <<wkVars, exVars, gfVars, cdnVars>>
SgSignB ==
  /\ sg.signedB = Unsigned
  /\ sg' = [sg EXCEPT !.signedB = signatureOf(sg.b)]
  /\ UNCHANGED <<wkVars, exVars, gfVars, cdnVars>>

InitSignature ==
  /\ WkInit(0) /\ ExInit /\ GfInit /\ CdnInit
  /\ \E a \in ParamMaps, b \in ParamMaps :
       sg = [a |-> a, b |-> b, signedA |-> Unsigned, signedB |-> Unsigned]
NextSignature == SgSignA \/ SgSignB
SpecSignature == InitSignature /\ [][NextSignature]_vars

\* C21: two parameter maps with the same key/value pairs, whatever the order
\* in which the pairs were inserted, have the same canonical string (keys
\* ascending, key=value, joined by &) and get the same signature.
C21_OrderIndependent ==
  (sg.signedA # Unsigned /\ sg.signedB # Unsigned /\ Entries(sg.a) = Entries(sg.b))
    => /\ sg.signedA = sg.signedB
       /\ sg.signedA.message = queryString(sg.b)
       /\ \A i \in 1..(Len(sort(ObjectKeys(sg.a))) - 1) :
            Before(sort(ObjectKeys(sg.a))[i], sort(ObjectKeys(sg.a))[i + 1])
C21_Witness ==
  /\ sg.signedA # Unsigned /\ sg.signedB # Unsigned
  /\ Entries(sg.a) = Entries(sg.b)
  /\ sg.a # sg.b
  /\ Len(sg.a) = 3

(***************************************************************************)
(* Claims about the name lookup of the Worker of src/unnamed/part_004.     *)
(***************************************************************************)
\* C22: a request whose country is not a two-letter code and whose name
\* lookup throws or gives no array, an empty array or an entry without cca2
\* is answered 400 "Invalid country name or code."; the flag cache is
\* neither read nor written for it and the origin is not asked.
C22_LookupFailsClosed ==
  \A p \in Handlers :
    wkHist[p].lookup = "failed" =>
      /\ ~InFlight(p)
      /\ wkResp[p] = JsonResponse(FALSE, 400, "Invalid country name or code.", NoUrl)
      /\ ~wkHist[p].hit
      /\ wkHist[p].country = <<>>
      /\ ~wkHist[p].fetched
      /\ wkHist[p].originCalls = 0
      /\ wkHist[p].flagWrites = 0
C22_Witness ==
  \E p \in Handlers :
    /\ wkHist[p].lookup = "failed"
    /\ wkResp[p].status = 400
    /\ \E q \in Handlers : wkHist[q].lookup = "matched" /\ wkHist[q].flagWrites = 1

(***************************************************************************)
(* getFlagHtml of src/unnamed/part_006.  One call is made at a time; the   *)
(* call issues a request to the gateway and, when axios settles it,        *)
(* either returns, throws or issues the next request.                      *)
(*   gf.requests  the requests the call has issued                         *)
(*   gf.statuses  the status of each answer it got (0: no answer)          *)
(***************************************************************************)
GF_CACHE_TTL == 60000
maxAttempts == 3
MaxHtmlCalls == 3
MaxHtmlTicks == 2
HtmlTickMs == 30000

LowerChar(c) ==
  IF \E i \in 1..Len(UpperLetters) : UpperLetters[i] = c
  THEN LowerLetters[CHOOSE i \in 1..Len(UpperLetters) : UpperLetters[i] = c]
  ELSE c
toLowerCase(str) == [i \in 1..Len(str) |-> LowerChar(str[i])]

escapeChar(c) ==
  IF c = "&" THEN "&amp;"
  ELSE IF c = "<" THEN "&lt;"
  ELSE IF c = ">" THEN "&gt;"
  ELSE IF c = "\"" THEN "&quot;"
  ELSE IF c = "'" THEN "&#039;"
  ELSE c
escapeHtml(unsafe) == [i \in 1..Len(unsafe) |-> escapeChar(unsafe[i])]

isSecureUrl(url) == url.parses /\ url.protocol = "https:"

\* what the caller passes: nothing, blanks, a code, a name
GfCountries ==
  { NoParam, Param(<<" ", " ">>), Param(<<" ", "D", "E">>), Param(<<"d", "e">>),
    Param(<<"<", "b", ">">>) }

\* how axios.get settles: a 2xx answer with its body, or a rejection with
\* the answer's status, or a rejection without an answer (status 0)
GfBody(success, protocol) ==
  [success |-> success,
   secureUrl |-> [parses |-> protocol # "", protocol |-> protocol,
                  rest |-> "//res.cloudinary.com/flag"]]
GfOutcomes ==
  { [status |-> 200, data |-> GfBody(TRUE, "https:")],
    [status |-> 200, data |-> GfBody(TRUE, "http:")],
    [status |-> 400, data |-> GfBody(FALSE, "")],
    [status |-> 429, data |-> GfBody(FALSE, "")],
    [status |-> 500, data |-> GfBody(FALSE, "")],
    [status |-> 0, data |-> GfBody(FALSE, "")] }

\* axios resolves on a 2xx status and rejects otherwise (validateStatus)
AxiosResolves(outcome) == outcome.status >= 200 /\ outcome.status < 300

HtmlFresh(cacheKey) ==
  /\ cacheKey \in DOMAIN htmlCache
  /\ gfNow - htmlCache[cacheKey].timestamp < GF_CACHE_TTL

\* lines 76 and 92-105: the catch block swallows every error and the loop
\* goes on while attempts are left
GfKeepsTrying(attempt, outcome) == attempt < maxAttempts

\* lines 59-81: the call up to its first request
GfCall(country) ==
  /\ gf.pc = "idle"
  /\ gf.calls < MaxHtmlCalls
  /\ LET trimmedCountry == IF country.given THEN trim(country.text) ELSE <<>>
         cacheKey == toLowerCase(trimmedCountry)
         called == [GfIdle EXCEPT !.calls = gf.calls + 1, !.country = trimmedCountry]
     IN  IF trimmedCountry = <<>>
         THEN gf' = [called EXCEPT !.result = "threw"]
         ELSE IF HtmlFresh(cacheKey)
         THEN gf' = [called EXCEPT !.result = "cached"]
         ELSE gf' = [called EXCEPT !.pc = "request", !.attempt = 1, !.requests = 1]
  /\ UNCHANGED <<gfNow, htmlCache, wkVars, exVars, sgVars, cdnVars>>

\* lines 78-105 and 107: axios settles the request of this attempt
GfAnswer(outcome) ==
  /\ gf.pc = "request"
  /\ LET data == outcome.data
         answered == [gf EXCEPT !.statuses = Append(@, outcome.status)]
     IN  IF AxiosResolves(outcome) /\ data.success /\ isSecureUrl(data.secureUrl)
         THEN /\ htmlCache' =
                   MapSet(htmlCache, toLowerCase(gf.country),
                          [html |-> [src |-> data.secureUrl,
                                     alt |-> <<"Flag of ">> \o escapeHtml(gf.country)],
                           timestamp |-> gfNow])
              /\ gf' = [answered EXCEPT !.pc = "idle", !.result = "html"]
         ELSE /\ gf' = IF GfKeepsTrying(gf.attempt, outcome)
                       THEN [answered EXCEPT !.attempt = @ + 1, !.requests = @ + 1]
                       ELSE [answered EXCEPT !.pc = "idle", !.result = "threw"]
              /\ UNCHANGED htmlCache
  /\ UNCHANGED <<gfNow, wkVars, exVars, sgVars, cdnVars>>

GfTick ==
  /\ gfNow + HtmlTickMs <= MaxHtmlTicks * HtmlTickMs
  /\ gfNow' = gfNow + HtmlTickMs
  /\ UNCHANGED <<htmlCache, gf, wkVars, exVars, sgVars, cdnVars>>

InitHtml == WkInit(0) /\ ExInit /\ ClInit
NextHtml ==
  \/ \E country \in GfCountries : GfCall(country)
  \/ \E outcome \in GfOutcomes : GfAnswer(outcome)
  \/ GfTick
SpecHtml == InitHtml /\ [][NextHtml]_vars

\* C23: once the gateway has answered a request of a call with 400 or 429,
\* the call has issued no request after that one and has failed.
C23_NoRetryOfClientErrors ==
  \A i \in 1..Len(gf.statuses) :
    gf.statuses[i] \in {400, 429} =>
      /\ gf.requests = i
      /\ gf.pc = "idle"
      /\ gf.result = "threw"

(***************************************************************************)
(* The Worker of src/unnamed/part_004 deployed without one of its origin   *)
(* credentials.  Nothing reads env before a request needs it (lines 13-17  *)
(* hand env to handleRequest unread), so requests are taken as with the    *)
(* credentials.  Only fetchSignedCloudinaryUrl differs: without the secret *)
(* importKey is given an empty key and throws; without the cloud name or   *)
(* the API key the URL is assembled with the text "undefined" and the      *)
(* origin refuses it.                                                      *)
(***************************************************************************)
Credentials == {"CLOUDINARY_CLOUD_NAME", "CLOUDINARY_API_KEY", "CLOUDINARY_API_SECRET"}

OriginOutcomesWith(present) ==
  IF Credentials \subseteq present THEN OriginOutcomes
  ELSE IF "CLOUDINARY_API_SECRET" \notin present THEN {"throw"}
  ELSE {"notOk", "throw"}

NextNoCredentials ==
  \/ \E p \in Handlers :
       \/ WkRequest(p)
       \/ WkRateGet(p)
       \/ WkRatePut(p)
       \/ WkValidate(p)
       \/ \E outcome \in LookupOutcomes : WkLookup(p, outcome)
       \/ WkCacheGet(p)
       \/ \E absent \in Credentials :
            \E outcome \in OriginOutcomesWith(Credentials \ {absent}) :
              WkOriginFetch(p, outcome)
  \/ WkTick

SpecNoCredentials == Init /\ [][NextNoCredentials]_vars

\* C24: with an origin credential absent the Worker answers no request:
\* no handler ever produces a response, so none produces a 500.
C24_NothingServed ==
  \A p \in Handlers : wkResp[p] = NoResp

(***************************************************************************)
(* Claims about the headers of the Worker of src/unnamed/part_004.         *)
(***************************************************************************)
\* C25: every Response that handleRequest returns, the 204 to OPTIONS, the
\* 404 to an unknown path and the 200, 400, 429 and 500 of /api/getFlag,
\* carries the three cross-origin headers of corsHeaders.
C25_EveryResponseHasCors ==
  \A p \in Handlers :
    (wkResp[p] # NoResp /\ wkResp[p] # Rejected) =>
      /\ wkResp[p].status \in {200, 204, 400, 404, 429, 500}
      /\ corsHeaders \subseteq wkResp[p].headers
      /\ <<"Access-Control-Allow-Origin", "*">> \in wkResp[p].headers
C25_Witness ==
  \E p, q \in Handlers :
    /\ wkResp[p].status = 204 /\ corsHeaders \subseteq wkResp[p].headers
    /\ wkResp[q].status \in {404, 500} /\ corsHeaders \subseteq wkResp[q].headers

(***************************************************************************)
(* Claims about how the signature of a signed URL is made.                 *)
(***************************************************************************)
\* the signature is an HMAC under a key, not a digest of a text
IsKeyedHmac(signature) ==
  /\ signature # <<>>
  /\ signature[1] \in {"HMAC-SHA1", "HMAC-SHA256"}
  /\ signature[2] = "CLOUDINARY_API_SECRET"

\* C27: the signature of every signed URL, cached or answered, is an HMAC of
\* the parameter string keyed with the API secret and not a digest of the
\* parameter string followed by the secret.
C27_SignaturesAreKeyed ==
  /\ \A k \in DOMAIN kvFlag : IsKeyedHmac(kvFlag[k].value.signature)
  /\ \A p \in Handlers :
       wkResp[p].secureUrl # NoUrl => IsKeyedHmac(wkResp[p].secureUrl.signature)

(***************************************************************************)
(* The first Express server of backend/serverCloudwareWorker.ts, lines     *)
(* 178-344, on the variables of the Express server.  getFlagHandler awaits *)
(* nothing: a request is validated, handled and answered in one step.  The *)
(* requests are those its rate limiter lets through.                       *)
(***************************************************************************)
\* flagQueryValidationSchema, lines 267-275: string().required().min(2)
\* .max(3).uppercase(), not strict, so that any case passes; "" where the
\* value passes
JoiErrorV1(query) ==
  CASE ~query.given -> "\"country\" is a required field"
    [] query.text = <<>> -> "\"country\" cannot be an empty field"
    [] Len(query.text) < 2 -> "\"country\" should have a minimum length of 2"
    [] Len(query.text) > 3 -> "\"country\" should have a maximum length of 3"
    [] OTHER -> ""

V1Queries == ExpressQueries \cup {Param(<<>>), Param(<<"I", "N", "D", "I">>)}

\* how cloudinary.v2.url and cache.set end
V1Outcomes == {"ok", "urlThrows", "setThrows"}

\* line 307
V1Fresh(key) == key \in DOMAIN cache /\ nowMs < cache[key].expiresAt

\* the global error handler, lines 338-341
errorHandler == catchErrorResponse("Unhandled error", 400)

\* validateQueryParams, lines 280-290, getFlagHandler, lines 295-332, and
\* the error handler its catch hands the error to
V1Request(query, outcome) ==
  /\ ex.pc = "idle"
  /\ exLog.arrivals < MaxExpressRequests
  /\ exLog' = [exLog EXCEPT !.arrivals = @ + 1,
                            !.last = [ExNoHist EXCEPT !.at = nowMs]]
  /\ IF JoiErrorV1(query) # ""
     THEN /\ exResp' = catchErrorResponse(JoiErrorV1(query), 400)
          /\ UNCHANGED cache
     ELSE LET country == query.text
              cacheKey == <<"flag_">> \o toUpperCase(country)
              signedUrl == ExSignedUrl(toUpperCase(country))
          IN  IF V1Fresh(cacheKey)
              THEN /\ exResp' = successResponse(cache[cacheKey].url)
                   /\ UNCHANGED cache
              ELSE IF outcome = "ok"
              THEN /\ cache' = MapSet(cache, cacheKey,
                                      [url |-> signedUrl,
                                       expiresAt |-> nowMs + expiresInSeconds * 1000,
                                       start |-> nowMs])
                   /\ exResp' = successResponse(signedUrl)
              ELSE /\ exResp' = errorHandler
                   /\ UNCHANGED cache
  /\ UNCHANGED <<nowMs, ongoingFetches, ex, wkVars, clVars>>

NextExpressV1 ==
  \/ \E query \in V1Queries, outcome \in V1Outcomes : V1Request(query, outcome)
  \/ ExTick
SpecExpressV1 == InitExpress /\ [][NextExpressV1]_vars

\* C26: an error raised while the signed URL is generated or cached is
\* answered 500 with success false, and a 400 is the answer to a query that
\* fails validation only.
C26_HandlerErrorsAre500 ==
  /\ exResp.message = "Unhandled error" => (exResp.status = 500 /\ ~exResp.success)
  /\ exResp.status = 400 =>
       exResp.message \in {JoiErrorV1(query) : query \in V1Queries} \ {""}

(***************************************************************************)
(* The CDN client, src/clients/country-flag-html-cdn/src/flag-cdn.js.      *)
(*   chain[c]   the c-th fetchPromise (lines 98-139) and the retryableFetch*)
(*              it awaits: "fetching" while a fetchWithTimeout is awaited, *)
(*              "waiting" during a backoff, "json" while response.json()   *)
(*              is awaited, "settled" once the promise is resolved         *)
(*     attempt  retryableFetch's variable; fetches, waits: the attempts    *)
(*              started and the delays slept so far                        *)
(*     retry    how retryableFetch ended: "returned" a response, "threw",  *)
(*              or "undefined" when its loop ran out                       *)
(*   caller[k]  the k-th call of fetchFlag and the promise it stands for   *)
(* A call runs from its start to its first await in one step; every await  *)
(* of the chain is a step.  fetchWithTimeout aborts after TIMEOUT, so each *)
(* attempt ends, with a response or with an error.  cdnNow counts the      *)
(* hours of CACHE_TTL; the seconds of an attempt or of a backoff do not    *)
(* move it.                                                                *)
(***************************************************************************)
RETRY_COUNT == 3
RETRY_DELAY == 500
CDN_CACHE_TTL == 3600000
MaxCdnTicks == 1

CdnCountries == {"", "DE", "de"}
\* how a fetchWithTimeout ends, and what response.json() gives
CdnFetchOutcomes == {"throw", "notOk", "ok"}
CdnBodies ==
  { [throws |-> TRUE, success |-> FALSE, secureUrl |-> ""],
    [throws |-> FALSE, success |-> FALSE, secureUrl |-> ""],
    [throws |-> FALSE, success |-> TRUE, secureUrl |-> ""],
    [throws |-> FALSE, success |-> TRUE, secureUrl |-> "https://res.cloudinary.com/1"],
    [throws |-> FALSE, success |-> TRUE, secureUrl |-> "https://res.cloudinary.com/2"] }

RECURSIVE Pow2(_)
Pow2(n) == IF n = 0 THEN 1 ELSE 2 * Pow2(n - 1)

ChainActive(c) == chain[c].state \in {"fetching", "waiting", "json"}

\* the mutation: an entry is served at the instant it expires
CdnFresh_AtExpiry(country) ==
  country \in DOMAIN cdnCache /\ cdnCache[country].expiry >= cdnNow

\* line 84
CdnFresh(country) ==
  country \in DOMAIN cdnCache /\ cdnCache[country].expiry > cdnNow

\* the mutation: no request is ever found in flight
Pending_Never(country) == FALSE

\* line 89
Pending(country) == country \in DOMAIN pendingRequests

\* the mutation: the error is never rethrown
Rethrows_Never(attempt, retries) == FALSE

\* line 58
Rethrows(attempt, retries) == attempt = retries

\* line 63
BackoffDelay(retryDelay, attempt) == retryDelay * Pow2(attempt)

\* the mutation: the entry is left in place when the chain gives null
Settle_KeepOnNull(c, ended, value) ==
  /\ chain' = [chain EXCEPT ![c] = [ended EXCEPT !.state = "settled", !.value = value]]
  /\ pendingRequests' = IF value = CdnNull THEN pendingRequests
                        ELSE MapDelete(pendingRequests, chain[c].country)

\* lines 116, 127, 130, 134 and 135-138: the chain returns value through its
\* finally block
Settle(c, ended, value) ==
  /\ chain' = [chain EXCEPT ![c] = [ended EXCEPT !.state = "settled", !.value = value]]
  /\ pendingRequests' = MapDelete(pendingRequests, chain[c].country)

\* fetchFlag, lines 76-143, up to its return
CdnCall(k, country) ==
  /\ caller[k].state = "idle"
  /\ \A j \in Calls : j < k => caller[j].state # "idle"
  /\ IF country = ""
     THEN /\ caller' = [caller EXCEPT ![k] = [NoCall EXCEPT !.state = "resolved"]]
          /\ UNCHANGED <<pendingRequests, chain>>
     ELSE IF CdnFresh(country)
     THEN /\ caller' = [caller EXCEPT ![k] =
                          [state |-> "resolved", country |-> country, chain |-> 0,
                           value |-> cdnCache[country].url]]
          /\ UNCHANGED <<pendingRequests, chain>>
     ELSE IF Pending(country)
     THEN /\ caller' = [caller EXCEPT ![k] =
                          [state |-> "awaiting", country |-> country,
                           chain |-> pendingRequests[country], value |-> CdnNull]]
          /\ UNCHANGED <<pendingRequests, chain>>
     ELSE /\ \E c \in Chains : chain[c].state = "none"
          /\ LET c == CHOOSE c \in Chains :
                        chain[c].state = "none" /\ \A d \in Chains : d < c => chain[d].state # "none"
             IN  /\ chain' = [chain EXCEPT ![c] =
                                [NoChain EXCEPT !.state = "fetching", !.country = country,
                                                !.fetches = 1, !.retry = "running"]]
                 /\ pendingRequests' = MapSet(pendingRequests, country, c)
                 /\ caller' = [caller EXCEPT ![k] =
                                 [state |-> "awaiting", country |-> country,
                                  chain |-> c, value |-> CdnNull]]
  /\ UNCHANGED <<cdnNow, cdnCache, wkVars, exVars, sgVars, gfVars>>

\* retryableFetch, lines 54-60, and the chain, lines 100-117 and 132-138:
\* the attempt in flight ends
CdnFetchSettles(c, outcome) ==
  /\ chain[c].state = "fetching"
  /\ IF outcome = "throw"
     THEN IF Rethrows(chain[c].attempt, RETRY_COUNT)
          THEN Settle(c, [chain[c] EXCEPT !.retry = "threw"], CdnNull)
          ELSE /\ chain' = [chain EXCEPT
                              ![c].state = "waiting",
                              ![c].waits = Append(@, BackoffDelay(RETRY_DELAY, chain[c].attempt))]
               /\ UNCHANGED pendingRequests
     ELSE IF outcome = "notOk"
     THEN Settle(c, [chain[c] EXCEPT !.retry = "returned"], CdnNull)
     ELSE /\ chain' = [chain EXCEPT ![c].state = "json", ![c].retry = "returned"]
          /\ UNCHANGED pendingRequests
  /\ UNCHANGED <<cdnNow, cdnCache, caller, wkVars, exVars, sgVars, gfVars>>

\* retryableFetch, lines 62-67 and 54: the backoff timer fires; the loop
\* goes on or runs out, and then the chain's response.ok (line 112) throws
\* on undefined
CdnBackoffEnds(c) ==
  /\ chain[c].state = "waiting"
  /\ IF chain[c].attempt + 1 <= RETRY_COUNT
     THEN /\ chain' = [chain EXCEPT ![c].state = "fetching", ![c].attempt = @ + 1,
                                    ![c].fetches = @ + 1]
          /\ UNCHANGED pendingRequests
     ELSE Settle(c, [chain[c] EXCEPT !.attempt = @ + 1, !.retry = "undefined"], CdnNull)
  /\ UNCHANGED <<cdnNow, cdnCache, caller, wkVars, exVars, sgVars, gfVars>>

\* the chain, lines 119-138: response.json() ends
CdnJson(c, body) ==
  /\ chain[c].state = "json"
  /\ IF ~body.throws /\ body.success /\ body.secureUrl # ""
     THEN /\ cdnCache' = MapSet(cdnCache, chain[c].country,
                                [url |-> body.secureUrl, expiry |-> cdnNow + CDN_CACHE_TTL])
          /\ Settle(c, chain[c], body.secureUrl)
     ELSE /\ Settle(c, chain[c], CdnNull)
          /\ UNCHANGED cdnCache
  /\ UNCHANGED <<cdnNow, caller, wkVars, exVars, sgVars, gfVars>>

\* the promise a call returned is resolved with the value of its chain
CdnResume(k) ==
  /\ caller[k].state = "awaiting"
  /\ chain[caller[k].chain].state = "settled"
  /\ caller' = [caller EXCEPT ![k].state = "resolved",
                              ![k].value = chain[caller[k].chain].value]
  /\ UNCHANGED <<cdnNow, cdnCache, pendingRequests, chain, wkVars, exVars, sgVars, gfVars>>

\* an hour passes while no request is in flight
CdnTick ==
  /\ \A c \in Chains : ~ChainActive(c)
  /\ cdnNow < MaxCdnTicks * CDN_CACHE_TTL
  /\ cdnNow' = cdnNow + CDN_CACHE_TTL
  /\ UNCHANGED <<cdnCache, pendingRequests, chain, caller, wkVars, exVars, sgVars, gfVars>>

ChainStep(c) ==
  \/ \E outcome \in CdnFetchOutcomes : CdnFetchSettles(c, outcome)
  \/ CdnBackoffEnds(c)
  \/ \E body \in CdnBodies : CdnJson(c, body)

InitCdn == WkInit(0) /\ ExInit /\ ClInit
NextCdn ==
  \/ \E k \in Calls, country \in CdnCountries : CdnCall(k, country)
  \/ \E c \in Chains :
       \/ \E outcome \in CdnFetchOutcomes : CdnFetchSettles(c, outcome)
       \/ CdnBackoffEnds(c)
       \/ \E body \in CdnBodies : CdnJson(c, body)
  \/ \E k \in Calls : CdnResume(k)
  \/ CdnTick
SpecCdn ==
  /\ InitCdn /\ [][NextCdn]_vars
  /\ \A c \in Chains : WF_vars(ChainStep(c))

\* the calls of fetchFlag made one after the other: retryableFetch and the
\* chain around it without a concurrent call
CdnCallInTurn(k, country) ==
  /\ \A j \in Calls : caller[j].state # "awaiting"
  /\ CdnCall(k, country)
NextCdnInTurn ==
  \/ \E k \in Calls, country \in CdnCountries : CdnCallInTurn(k, country)
  \/ \E c \in Chains :
       \/ \E outcome \in CdnFetchOutcomes : CdnFetchSettles(c, outcome)
       \/ CdnBackoffEnds(c)
       \/ \E body \in CdnBodies : CdnJson(c, body)
  \/ \E k \in Calls : CdnResume(k)
  \/ CdnTick
SpecCdnInTurn ==
  /\ InitCdn /\ [][NextCdnInTurn]_vars
  /\ \A c \in Chains : WF_vars(ChainStep(c))

(***************************************************************************)
(* Claims about the CDN client.                                            *)
(***************************************************************************)
\* C28: while a chain for a country is in flight there is no second chain
\* for that country; every call for the country that finds no fresh cache
\* entry waits for that one chain, and every call that waited for a chain
\* resolves to the value the chain gave, a URL or null.
C28_OneChainPerCountry ==
  /\ \A c, d \in Chains :
       (c # d /\ ChainActive(c) /\ ChainActive(d)) => chain[c].country # chain[d].country
  /\ \A k \in Calls :
       caller[k].state = "awaiting" =>
         /\ chain[caller[k].chain].country = caller[k].country
         /\ ChainActive(caller[k].chain) =>
              /\ caller[k].country \in DOMAIN pendingRequests
              /\ pendingRequests[caller[k].country] = caller[k].chain
  /\ \A k, j \in Calls :
       (/\ caller[k].state = "awaiting" /\ caller[j].state = "awaiting"
        /\ caller[k].country = caller[j].country
        /\ ChainActive(caller[k].chain) /\ ChainActive(caller[j].chain)) =>
         caller[k].chain = caller[j].chain
  /\ \A k \in Calls :
       (caller[k].state = "resolved" /\ caller[k].chain # 0) =>
         /\ chain[caller[k].chain].state = "settled"
         /\ caller[k].value = chain[caller[k].chain].value
C28_Witness ==
  \E k, j \in Calls :
    /\ k # j
    /\ caller[k].state = "resolved" /\ caller[j].state = "resolved"
    /\ caller[k].chain # 0 /\ caller[k].chain = caller[j].chain
    /\ caller[k].value # CdnNull /\ caller[k].value = caller[j].value

\* C29: a country is a key of pendingRequests exactly while a chain for it
\* has started and not settled, whatever the chain gives: no entry is left
\* for a chain that has settled.
C29_PendingIffInFlight ==
  /\ \A country \in CdnCountries :
       country \in DOMAIN pendingRequests <=>
         \E c \in Chains : ChainActive(c) /\ chain[c].country = country
  /\ \A country \in DOMAIN pendingRequests :
       /\ ChainActive(pendingRequests[country])
       /\ chain[pendingRequests[country]].country = country
  /\ \A k \in Calls :
       (caller[k].state = "resolved" /\ caller[k].chain # 0
        /\ \A c \in Chains : ~ChainActive(c)) =>
         caller[k].country \notin DOMAIN pendingRequests
C29_Witness ==
  \E c, d \in Chains :
    /\ chain[c].state = "settled" /\ chain[c].value = CdnNull /\ chain[c].retry = "threw"
    /\ chain[d].state = "settled" /\ chain[d].value # CdnNull
    /\ chain[c].country = chain[d].country
    /\ chain[c].country \notin DOMAIN pendingRequests

\* what retryableFetch has done so far in chain c
RetrySafe(c) ==
  /\ chain[c].fetches <= RETRY_COUNT + 1
  /\ chain[c].retry # "undefined"
  /\ Len(chain[c].waits) <= RETRY_COUNT
  /\ \A i \in 1..Len(chain[c].waits) : chain[c].waits[i] = RETRY_DELAY * Pow2(i - 1)
  /\ chain[c].state = "fetching" => chain[c].fetches = Len(chain[c].waits) + 1
  /\ chain[c].retry = "returned" => chain[c].fetches = Len(chain[c].waits) + 1
  /\ chain[c].retry = "threw" =>
       /\ chain[c].fetches = RETRY_COUNT + 1
       /\ chain[c].waits = <<500, 1000, 2000>>

\* C30: retryableFetch ends after at most retries + 1 attempts: it returns
\* the response of the first attempt that does not throw, sleeps
\* retryDelay * 2^attempt between two attempts, rethrows the error of the
\* last attempt, and never returns without a response.
C30_RetryEnds ==
  /\ [](\A c \in Chains : RetrySafe(c))
  /\ \A c \in Chains :
       (chain[c].retry = "running") ~> (chain[c].retry \in {"returned", "threw"})
C30_Witness ==
  \E c, d \in Chains :
    /\ chain[c].retry = "threw" /\ chain[c].fetches = 4
    /\ chain[d].retry = "returned" /\ chain[d].waits = <<500, 1000>>

\* C31: fetchFlag resolves and never rejects; a chain that fails (retries
\* used up, a status that is not ok, a body without success or URL, a body
\* that cannot be read) gives null and leaves the cache as it was, so the
\* cache holds URLs of chains that succeeded only; a later call for the
\* country then waits for a chain that is in flight, never for the settled
\* one; and a call is answered from the cache only while the entry's expiry
\* is later than now.
C31_FailuresAreNullAndUncached ==
  /\ [](/\ \A c \in Chains :
             (chain[c].state = "settled" /\ chain[c].retry # "returned") =>
               chain[c].value = CdnNull
        /\ \A country \in DOMAIN cdnCache :
             /\ cdnCache[country].url \notin {CdnNull, ""}
             /\ \E c \in Chains :
                  /\ chain[c].state = "settled" /\ chain[c].country = country
                  /\ chain[c].value = cdnCache[country].url
        /\ \A k \in Calls :
             (caller[k].state = "resolved" /\ caller[k].chain = 0 /\ caller[k].country # "") =>
               caller[k].value \notin {CdnNull, ""})
  /\ [][\A k \in Calls :
          (caller[k].state = "idle" /\ caller'[k].state # "idle" /\ caller'[k].country # "") =>
            IF caller'[k].chain = 0
            THEN /\ caller'[k].country \in DOMAIN cdnCache
                 /\ cdnCache[caller'[k].country].expiry > cdnNow
                 /\ caller'[k].value = cdnCache[caller'[k].country].url
            ELSE /\ chain[caller'[k].chain].state # "settled"
                 /\ chain'[caller'[k].chain].state \in {"fetching", "waiting", "json"}
                 /\ chain'[caller'[k].chain].country = caller'[k].country]_vars
C31_Witness ==
  \E c, d \in Chains, k, j \in Calls :
    /\ c # d /\ k # j
    /\ chain[c].state = "settled" /\ chain[c].value = CdnNull
    /\ chain[d].state = "fetching" /\ chain[d].country = chain[c].country
    /\ caller[k].state = "resolved" /\ caller[k].chain = c /\ caller[k].value = CdnNull
    /\ caller[j].state = "awaiting" /\ caller[j].chain = d
    /\ chain[c].country \notin DOMAIN cdnCache

(***************************************************************************)
(* Claims about the rate limiter of the Worker of src/unnamed/part_004.    *)
(***************************************************************************)
\* C32: whatever the interleaving of the requests, every stored rate-limit
\* counter is the decimal text of an integer from 1 to RATE_LIMIT_MAX, and a
\* handler about to write holds a count below RATE_LIMIT_MAX.
C32_CounterInRange ==
  /\ \A key \in DOMAIN kvRate :
       /\ parseInt(kvRate[key].value) \in 1..RATE_LIMIT_MAX
       /\ toString(parseInt(kvRate[key].value)) = kvRate[key].value
  /\ \A p \in Handlers :
       wk[p].pc = "ratePut" => wk[p].count + 1 \in 1..RATE_LIMIT_MAX
C32_Witness ==
  \E p, q \in Handlers :
    /\ p # q
    /\ wkHist[p].rlWrites = 1 /\ wkHist[q].rlWrites = 1
    /\ wkLog.admitted = RATE_LIMIT_MAX + 1
    /\ \E key \in DOMAIN kvRate : kvRate[key].value = toString(RATE_LIMIT_MAX)

(***************************************************************************)
(* Two clients at the rate limiter of the Worker of src/unnamed/part_004:  *)
(* one with the address 203.0.113.7 and one whose requests carry no        *)
(* CF-Connecting-IP.  Each has been admitted 0 or RATE_LIMIT_MAX - 1 times *)
(* in this second; their requests, without a country, interleave.          *)
(***************************************************************************)
MaxIsoRequests == 3
IsoIps == {"203.0.113.7", ""}

\* the counter of the client with address ip
ClientKey(ip) == <<"rl_", IF ip = "" THEN "unknown_ip" ELSE ip>>

IsoInit ==
  /\ now = 0
  /\ \E prior \in [IsoIps -> PriorRequests] :
       kvRate = [k \in {ClientKey(ip) : ip \in {i \in IsoIps : prior[i] # 0}} |->
                   [value |-> toString(RATE_LIMIT_MAX - 1),
                    expiresAt |-> RATE_LIMIT_WINDOW_SEC]]
  /\ kvFlag = [k \in {} |-> [value |-> NoUrl, expiresAt |-> 0]]
  /\ wk = [p \in Slots |-> WkIdle]
  /\ wkResp = [p \in Handlers |-> NoResp]
  /\ wkHist = [p \in Handlers |-> WkNoHist]
  /\ wkLog = [arrivals |-> 0, windowStart |-> 0, admitted |-> 0, okUrls |-> {}]

IsoRequest(p) ==
  /\ wkLog.arrivals < MaxIsoRequests
  /\ \E ip \in IsoIps : WkArrive(p, "GET", GetFlagPath, ip, NoParam)

InitIsolation == IsoInit /\ ExInit /\ ClInit
NextIsolation ==
  \/ \E p \in Handlers :
       \/ IsoRequest(p)
       \/ WkRateGet(p)
       \/ WkRatePut(p)
       \/ WkValidate(p)
  \/ WkTick
SpecIsolation == InitIsolation /\ [][NextIsolation]_vars

\* the counter of the client, as isRateLimited reads it
IsoCount(ip) ==
  IF ClientKey(ip) \in DOMAIN kvRate /\ now < kvRate[ClientKey(ip)].expiresAt
  THEN parseInt(kvRate[ClientKey(ip)].value) ELSE 0

\* C33: the rate limiter keeps the clients apart.  A request is refused or
\* admitted by the counter of its own client alone, and the step of a
\* request changes no counter but that of its own client; so the requests
\* of the other clients, whatever they are, leave the outcome of every
\* request of a client as it is.
C33_Isolated ==
  /\ [](DOMAIN kvRate \subseteq {ClientKey(ip) : ip \in IsoIps})
  /\ [][\A p \in Handlers :
          /\ (wk[p].pc = "rateGet" /\ wk'[p].pc # "rateGet") =>
               /\ (wkResp'[p].status = 429) <=> (IsoCount(wk[p].ip) >= RATE_LIMIT_MAX)
               /\ (wk'[p].pc = "ratePut") <=> (IsoCount(wk[p].ip) < RATE_LIMIT_MAX)
               /\ wk'[p].pc = "ratePut" => wk'[p].count = IsoCount(wk[p].ip)
               /\ kvRate' = kvRate
          /\ (wk[p].pc = "ratePut" /\ wk'[p].pc # "ratePut") =>
               /\ \A ip \in IsoIps \ {wk[p].ip} :
                    /\ ClientKey(ip) \in DOMAIN kvRate' <=> ClientKey(ip) \in DOMAIN kvRate
                    /\ ClientKey(ip) \in DOMAIN kvRate =>
                         kvRate'[ClientKey(ip)] = kvRate[ClientKey(ip)]
               /\ kvRate'[ClientKey(wk[p].ip)].value = toString(wk[p].count + 1)
          /\ (wk[p].pc \notin {"rateGet", "ratePut"} /\ wk'[p] # wk[p]) =>
               kvRate' = kvRate]_vars
C33_Witness ==
  \E p, q \in Handlers :
    /\ wkResp[p].status = 429 /\ wk[p].pc = "idle"
    /\ wkResp[q].status = 400 /\ wk[q].pc = "idle" /\ wkHist[q].rlWrites = 1
    /\ ClientKey("203.0.113.7") \in DOMAIN kvRate /\ ClientKey("") \in DOMAIN kvRate
    /\ kvRate[ClientKey("203.0.113.7")].value # kvRate[ClientKey("")].value

\* C34: the rate limiter locks no client out for good.  A refusal writes
\* nothing, so a counter is gone RATE_LIMIT_WINDOW_SEC after the last
\* admitted request wrote it, and a request that reads after that is
\* admitted with a count of 0.
C34_NoLockout ==
  /\ [](\A key \in DOMAIN kvRate :
          now < kvRate[key].expiresAt /\ kvRate[key].expiresAt <= now + RATE_LIMIT_WINDOW_SEC)
  /\ [][/\ \A p \in Handlers :
            /\ (wk[p].pc = "rateGet" /\ wk'[p].pc = "idle") =>
                 /\ wkResp'[p].status = 429
                 /\ kvRate' = kvRate
            /\ (wk[p].pc = "rateGet" /\ wk'[p].pc # "rateGet"
                /\ ClientKey(wk[p].ip) \notin DOMAIN kvRate) =>
                 /\ wk'[p].pc = "ratePut" /\ wk'[p].count = 0
            /\ (wk[p].pc = "ratePut" /\ wk'[p].pc # "ratePut") =>
                 /\ kvRate'[ClientKey(wk[p].ip)].expiresAt = now + RATE_LIMIT_WINDOW_SEC
                 /\ wkResp'[p].status # 429
        /\ now' # now =>
             /\ DOMAIN kvRate' = {key \in DOMAIN kvRate : now' < kvRate[key].expiresAt}
             /\ \A key \in DOMAIN kvRate' : kvRate'[key] = kvRate[key]]_vars
C34_Witness ==
  \E p, q \in Handlers :
    /\ p # q /\ wkHist[p].ip = wkHist[q].ip
    /\ wkResp[p].status = 429 /\ wk[p].pc = "idle"
    /\ wkHist[q].rlWrites = 1 /\ wk[q].pc = "idle"
    /\ now >= RATE_LIMIT_WINDOW_SEC
    /\ ClientKey(wkHist[q].ip) \in DOMAIN kvRate
    /\ kvRate[ClientKey(wkHist[q].ip)] =
         [value |-> toString(1), expiresAt |-> now + RATE_LIMIT_WINDOW_SEC]

(***************************************************************************)
(* The Worker over the lifetime of a cached URL.  fetchSignedCloudinaryUrl *)
(* reads the clock at line 203, before the verification request of line    *)
(* 215; fetchAndCacheFlag writes the entry at line 188, when that request  *)
(* has returned.  The clock moves by seconds while a verification request  *)
(* is outstanding, up to MaxLatencySec, and then once by the rest of       *)
(* TTL_SECONDS.                                                            *)
(***************************************************************************)
MaxLatencySec == 2

VtLatency ==
  /\ \E p \in Handlers : wk[p].pc = "originFetch"
  /\ now < MaxLatencySec
  /\ now' = now + 1
  /\ kvRate' = KVExpire(kvRate, now + 1)
  /\ kvFlag' = KVExpire(kvFlag, now + 1)
  /\ UNCHANGED <<wk, wkResp, wkHist, wkLog, exVars, clVars>>

VtIdle ==
  /\ now <= MaxLatencySec
  /\ now' = now + TTL_SECONDS - MaxLatencySec
  /\ kvRate' = KVExpire(kvRate, now + TTL_SECONDS - MaxLatencySec)
  /\ kvFlag' = KVExpire(kvFlag, now + TTL_SECONDS - MaxLatencySec)
  /\ UNCHANGED <<wk, wkResp, wkHist, wkLog, exVars, clVars>>

NextValidity ==
  \/ \E p \in Handlers :
       \/ WkRequest(p)
       \/ WkRateGet(p)
       \/ WkRatePut(p)
       \/ WkValidate(p)
       \/ \E outcome \in LookupOutcomes : WkLookup(p, outcome)
       \/ WkCacheGet(p)
       \/ \E outcome \in OriginOutcomes : WkOriginFetch(p, outcome)
       \/ \E outcome \in PutOutcomes : WkCachePut(p, outcome)
  \/ VtLatency
  \/ VtIdle
SpecValidity == Init /\ [][NextValidity]_vars

\* C35: a secureUrl answered from FLAG_CACHE is within its signed validity:
\* the timestamp in the URL is later than the time of the response.
C35_CachedUrlsAreValid ==
  [][\A p \in Handlers :
       (wk[p].pc = "cacheGet" /\ wkHist'[p].hit /\ wkResp'[p].status = 200) =>
         now < wkResp'[p].secureUrl.timestamp]_vars

\* C36: in the Worker revision with the background refresh the signed
\* timestamp of the URL cached for a key never decreases: no put replaces
\* the URL of a key by one with an earlier timestamp, whatever the order in
\* which overlapping refreshes finish.
C36_TimestampNeverDecreases ==
  [][\A key \in DOMAIN kvFlag \cap DOMAIN kvFlag' :
       kvFlag'[key].value.timestamp >= kvFlag[key].value.timestamp]_vars

C38_ExactlyOneResponse ==
  exLog.last.valid =>
    /\ exLog.last.sent <= 1
    /\ (ex.pc = "idle" => exLog.last.sent = 1)
    /\ (ex.pc # "idle" /\ ex.res => exLog.last.sent = 0)
\* a request that joined an existing fetch whose promise was rejected has
\* been answered, by the error handler
C38_Witness ==
  /\ ex.pc = "idle"
  /\ exLog.last.valid /\ exLog.last.missed /\ ~exLog.last.generated
  /\ exLog.last.sent = 1
  /\ exResp.status = 500

====
